---- MODULE Spec2Model ----
(***************************************************************************)
(* DiaryAssistant: the interaction core.                                   *)
(*   - ApiClient (src/analyzer.py): streaming request, retry rounds,       *)
(*     operator escalation, interaction log.                               *)
(*   - UserProfile (src/user_profile.py): the memory store.                *)
(*   - MemoryManager / DeepSeekAnalyzer / DiaryAssistant.run: the run.     *)
(* Text is a sequence of characters, so that concatenation, equality,      *)
(* substring containment and replacement are computed, not assumed.        *)
(***************************************************************************)
EXTENDS Integers, Sequences, FiniteSets, TLC

VARIABLES
    \* ---- ApiClient._stream_request (one attempt's stream) ----
    lines,        \* the lines response.iter_lines() will yield
    pos,          \* index of the next line to read
    content,      \* local `content`
    reasoning,    \* local `reasoning`
    usage_info,   \* local `usage_info`: "none" (None), "null", "obj"
    spc,          \* "idle" | "reading" | "returned" | "raised"
    \* ---- ApiClient._send_with_retry (one send_request call) ----
    tpc,          \* "idle" | "attempt" | "prompt" | "returned" | "skipped" | "aborted"
    attempt,      \* loop variable of `for attempt in range(3)`
    ret,          \* what the call gave its caller
    answer,       \* the raw line the operator typed at the last prompt
    rounds,       \* history: rounds exhausted in this call
    http,         \* history: HTTP attempts made in this call
    fails,        \* history: failed attempts of the current round
    shown,        \* history: escalation prompts shown in the current round
    lastAttempt,  \* history: "none" | "ok" | "fail", the last attempt's end
    lastGot,      \* history: text the last attempt had accumulated when it ended
    lastLog,      \* history: the last attempt's interaction log (st: "none" |
                  \* "written" | "writefail") and the response text it holds
    \* ---- UserProfile (the memory store) ----
    facts,        \* self.facts
    file,         \* the profile file: "missing" | "corrupt" | "notlist" |
                  \* "synced" (the JSON list self.facts holds) | "stale" (a
                  \* JSON list self.facts has departed from since)
    upc,          \* position in update(): "idle" | "add" | "remove" | "update"
    nItems,       \* items of the current list already processed
    changed,      \* added_count or removed_count or updated_count
    item,         \* history: the item processed last
    prev,         \* history: self.facts before that item was processed
    warned,       \* history: that item logged a warning
    skipped,      \* history: an item of this instruction logged a warning
    begun,        \* history, kept in SpecInstr: self.facts when update() was entered
    \* ---- DiaryAssistant.run and what it calls ----
    rpc,          \* position of the run (see the run section)
    weeksLeft,    \* weeks of need_summary not yet summarised
    diaries,      \* self.diaries, sorted by date: [commented, sunday]
    idx,          \* 1-based position of the daily loop in self.diaries
    pipe,         \* "eval" | "ana": the generate_* call in progress
    resp,         \* what the response text in hand looks like
    profLen,      \* user_profile.get_profile_length()
    curLen,       \* local `current_length` of check_and_optimize
    cAttempt,     \* loop variable of the compaction `for attempt in range(3)`
    menuRounds,   \* history: times the operator chose "1" in this compaction
    exc,          \* the exception in flight: "none" | "KeyboardInterrupt" | "Exception"
    aborted,      \* history: the operator has chosen to abort
    late,         \* history: what the run did after the operator chose to abort
    backup,       \* the snapshot _backup_memory wrote in this check_and_optimize
    newFacts,     \* local `new_facts`: what _parse_memory_response returned last
    wrote,        \* history: the step just taken called save_profile
    calls,        \* history: compaction requests since the entry or the last menu answer
    prunes,       \* history: pruning requests in this check_and_optimize
    over,         \* history: this extract_and_apply_updates left the store above 4000
    prompted,     \* history: _prompt_manual_edit ran in this extract_and_apply_updates
    anaOut,       \* history: the text save_analysis_result was called with, "nofile" before
    updated,      \* history: update() of this pipeline call returned: "no" | "unchanged" | "saved"
    \* ---- the profile file, character by character ----
    disk,         \* the profile file: [st, text, made]
    fresh,        \* self.facts of a second UserProfile built on the same file
    ppc,          \* "off" | "start" | "loaded" | "saved" | "reloaded" | "crashed"
    io,           \* history: how the file system took the last save
    edited,       \* history: the file as the operator left it at the manual-edit pause
    \* ---- extract_and_apply_updates on the text of a response ----
    xpc,          \* "off" | "call" | "try" | "strip" | "except" | "returned" | "raised"
    xin,          \* the parameter `content`
    xout,         \* the value returned
    found,        \* json_match: [found, s, e, g1s, g1e]
    xexc,         \* the exception in flight
    applied,      \* history: calls of user_profile.update
    memCh,        \* history: self.facts was changed during the call
    fileCh,       \* history: the profile file was rewritten during the call
    logged,       \* history: line 176 logged an error
    \* ---- build_todo_context on one todo line ----
    dpc,          \* "off" | "filter" | "emit" | "built" | "returned"
    todo,         \* the line, a sequence of pieces
    today,        \* datetime.now().date() as a day of the year
    valid,        \* valid_todos
    digest,       \* parts, then the value returned
    \* ---- the interaction-log directory ----
    lpc,          \* "off" | "idle"
    clock,        \* datetime.now(), in whole seconds
    logDir,       \* the files of api_interactions: {[path, call]}
    logCalls,     \* history: calls of _save_interaction_log so far
    lastPath,     \* history: the path the last call wrote
    \* ---- the drop count of _prune_if_needed ----
    kpc,          \* "off" | "entered" | "counted"
    pLen,         \* current_length
    pCount,       \* len(self.user_profile.facts)
    drop,         \* drop_count
    \* ---- the diary file (DiaryReader) ----
    fpc,          \* "off" | "file" | "read" | "evaluated"
    raw_content,  \* the text of the diary file
    ai_comment,   \* DiaryEntry.ai_comment of the last read or append
    evaluation,   \* the last result of generate_daily_evaluation
    appends,      \* AI sections written so far
    runs,         \* runs that have read the file
    \* ---- the loop of process_daily_evaluations, diary by diary ----
    vpc,          \* "off" | "entered" | "loop" | "asked" | "raised" | "done"
    book,         \* self.diaries: [date, commented]
    cur,          \* 1-based position of the loop in self.diaries
    seen,         \* history: the dates of the entries visited, in order
    asks,         \* history: calls of generate_daily_evaluation, by entry
    written,      \* history: AI sections appended to the file, by entry
    outcome,      \* history: what the loop body did, by entry
    \* ---- run, week by week (check_and_generate_weekly_summaries) ----
    wpc,          \* "off" | "summaries" | "sum_asked" | "daily" | "halted" | "raised" | "done"
    need,         \* len(need_summary)
    wk,           \* 1-based position of the loop in need_summary
    sumFile,      \* the summary file of each week of need_summary
    sumOut,       \* history: what generate_weekly_summary gave for each week
    evals,        \* history: daily evaluations requested in this run
    \* ---- the blocking loops, without history counters ----
    bpc,          \* position of check_and_optimize: "idle" | "compress" | "menu" | "after_loop" | "prune" | "final" | "edit" | "returned" | "raised"
    bAttempt,     \* loop variable of the compaction `for attempt in range(3)`
    bLen,         \* local `current_length`, then get_profile_length()
    npc,          \* position of _send_with_retry: "idle" | "attempt" | "prompt" | "returned" | "skipped" | "aborted"
    nAttempt,     \* loop variable of `for attempt in range(3)`
    nFor,         \* who called send_request: "none" | "generate" | "compress" | "prune"
    retried,      \* history: the operator chose to retry in this call
    continued     \* history: the operator chose "1" in this check_and_optimize

streamVars == <<lines, pos, content, reasoning, usage_info, spc>>
sendVars == <<tpc, attempt, ret, answer, rounds, http, fails, shown,
              lastAttempt, lastGot, lastLog>>
storeVars == <<facts, file, upc, nItems, changed, item, prev, warned, skipped, begun>>
runVars == <<rpc, weeksLeft, diaries, idx, pipe, resp, profLen, curLen,
             cAttempt, menuRounds, exc, aborted, late, backup, newFacts, wrote, calls, prunes, over, prompted, anaOut, updated>>
persistVars == <<disk, fresh, ppc, io, edited>>
extractVars == <<xpc, xin, xout, found, xexc, applied, memCh, fileCh, logged>>
todoVars == <<dpc, todo, today, valid, digest>>
logVars == <<lpc, clock, logDir, logCalls, lastPath>>
pruneVars == <<kpc, pLen, pCount, drop>>
diaryVars == <<fpc, raw_content, ai_comment, evaluation, appends, runs>>
dailyVars == <<vpc, book, cur, seen, asks, written, outcome>>
weeklyVars == <<wpc, need, wk, sumFile, sumOut, evals>>
loopsVars == <<bpc, bAttempt, bLen, npc, nAttempt, nFor, retried, continued>>
vars == <<streamVars, sendVars, storeVars, runVars, persistVars, extractVars,
         todoVars,
         logVars,
         pruneVars,
         diaryVars,
         dailyVars,
         weeklyVars,
         loopsVars>>

(***************************************************************************)
(* Bounds of the model.                                                    *)
(***************************************************************************)
MaxLines == 3     \* lines in one response stream
MaxRounds == 2    \* 3-attempt rounds one call may go through
MaxFactLen == 2   \* characters in one fact or fragment
MaxFacts == 2     \* facts in the store
MaxItems == 2     \* items in each list of one update instruction
MaxWeeks == 1     \* weeks that need a summary when the run starts
MaxDiaries == 1   \* diaries loaded by the run
MaxMenuRounds == 1 \* times the operator answers "1" at one compaction menu
MaxSegments == 3   \* segments a response is put together from
MaxBody == 3       \* pieces of a todo line after its checkbox
MaxCalls == 3      \* logged calls of one ApiClient
MaxClock == 3      \* seconds the clock runs
MaxGrid == 8       \* store lengths and fact counts tried for the drop count
MaxContent == 2    \* characters of a diary file before the first run
MaxEval == 2       \* characters of an evaluation text
MaxRuns == 2       \* runs that read one diary file
MaxEntries == 3    \* diaries of one run of the daily loop
MaxDays == 3       \* days the diaries of the daily loop are spread over
MaxNeed == 3       \* weeks of need_summary
MaxEvals == 2      \* evaluation requests of the daily loop that are counted

(***************************************************************************)
(* Program constants.                                                      *)
(***************************************************************************)
\* the loop written as range(2)
AttemptsPerRoundShort == 3 - 1

\* `for attempt in range(3)`
AttemptsPerRound == 3

(***************************************************************************)
(* Text helpers.                                                           *)
(***************************************************************************)
Empty == <<>>

RECURSIVE SeqsUpTo(_, _)
SeqsUpTo(S, n) ==
    IF n = 0 THEN {<<>>}
    ELSE LET shorter == SeqsUpTo(S, n - 1)
         IN shorter \cup {Append(s, x) : s \in {t \in shorter : Len(t) = n - 1}, x \in S}

(***************************************************************************)
(* The stream: what one line of the response can be.                       *)
(*   blank   an empty keep-alive line                    (analyzer.py:95)  *)
(*   other   a line without the 'data: ' prefix          (analyzer.py:98)  *)
(*   done    'data: [DONE]'                              (analyzer.py:101) *)
(*   badjson 'data: ' + text json.loads rejects          (analyzer.py:111) *)
(*   scalar  'data: ' + JSON that is no container (7, null): `in` raises   *)
(*           TypeError, which line 111 does not catch                      *)
(*   reset   the connection breaks: iter_lines() raises                    *)
(*   chunk   'data: ' + a JSON object                                      *)
(* A chunk's field is "absent", "null" or present.                         *)
(***************************************************************************)
Plain(k) ==
    [k |-> k, usage |-> "absent", choices |-> "absent", delta |-> "absent",
     c |-> "absent", cs |-> Empty, r |-> "absent", rs |-> Empty]

Chunk(usage, choices, delta, c, cs, r, rs) ==
    [k |-> "chunk", usage |-> usage, choices |-> choices, delta |-> delta,
     c |-> c, cs |-> cs, r |-> r, rs |-> rs]

Chunks ==
    { Chunk("absent", "one", "obj", "str", <<"a">>, "absent", Empty),
      Chunk("absent", "one", "obj", "str", <<"b">>, "null", Empty),
      Chunk("absent", "one", "obj", "null", Empty, "str", <<"r">>),
      Chunk("obj", "one", "obj", "str", <<"a", "b">>, "str", <<"r">>),
      Chunk("obj", "empty", "absent", "absent", Empty, "absent", Empty),
      Chunk("null", "absent", "absent", "absent", Empty, "absent", Empty),
      Chunk("absent", "one", "absent", "absent", Empty, "absent", Empty),
      Chunk("absent", "one", "null", "absent", Empty, "absent", Empty) }

Lines ==
    {Plain("blank"), Plain("other"), Plain("done"), Plain("badjson"),
     Plain("scalar"), Plain("reset")} \cup Chunks

Streams == SeqsUpTo(Lines, MaxLines)

\* dict.get(key, '') or '': an absent key, null and '' all give ''
GetOrEmpty(has, s) == IF has = "str" THEN s ELSE Empty

StartAcc == [st |-> "reading", content |-> Empty, reasoning |-> Empty, usage |-> "none"]

\* One iteration of `for line in response.iter_lines()`.
StreamStepDropOnBad(acc, line) ==
    IF line.k = "badjson" THEN [acc EXCEPT !.content = Empty]
    ELSE IF line.k \in {"blank", "other"} THEN acc
    ELSE IF line.k = "done" THEN [acc EXCEPT !.st = "returned"]
    ELSE IF line.k \in {"scalar", "reset"} THEN [acc EXCEPT !.st = "raised"]
    ELSE LET u == IF line.usage = "absent" THEN acc.usage ELSE line.usage
         IN IF line.choices # "one" THEN [acc EXCEPT !.usage = u]
            ELSE IF line.delta = "null" THEN [acc EXCEPT !.st = "raised", !.usage = u]
            ELSE [acc EXCEPT !.usage = u,
                             !.content = @ \o GetOrEmpty(line.c, line.cs),
                             !.reasoning = @ \o GetOrEmpty(line.r, line.rs)]

StreamStepPrepend(acc, line) ==
    IF line.k \in {"blank", "other", "badjson"} THEN acc
    ELSE IF line.k = "done" THEN [acc EXCEPT !.st = "returned"]
    ELSE IF line.k \in {"scalar", "reset"} THEN [acc EXCEPT !.st = "raised"]
    ELSE LET u == IF line.usage = "absent" THEN acc.usage ELSE line.usage
         IN IF line.choices # "one" THEN [acc EXCEPT !.usage = u]
            ELSE IF line.delta = "null" THEN [acc EXCEPT !.st = "raised", !.usage = u]
            ELSE [acc EXCEPT !.usage = u,
                             !.content = GetOrEmpty(line.c, line.cs) \o @,
                             !.reasoning = GetOrEmpty(line.r, line.rs) \o @]

StreamStep(acc, line) ==
    IF line.k \in {"blank", "other", "badjson"} THEN acc
    ELSE IF line.k = "done" THEN [acc EXCEPT !.st = "returned"]
    ELSE IF line.k \in {"scalar", "reset"} THEN [acc EXCEPT !.st = "raised"]
    ELSE LET u == IF line.usage = "absent" THEN acc.usage ELSE line.usage
         IN IF line.choices # "one" THEN [acc EXCEPT !.usage = u]
            ELSE IF line.delta = "null" THEN [acc EXCEPT !.st = "raised", !.usage = u]
            ELSE [acc EXCEPT !.usage = u,
                             !.content = @ \o GetOrEmpty(line.c, line.cs),
                             !.reasoning = @ \o GetOrEmpty(line.r, line.rs)]

\* The whole of _stream_request on a given stream: the loop, then the return
\* at connection close when no [DONE] came.
RECURSIVE StreamFrom(_, _, _)
StreamFrom(acc, ls, i) ==
    IF acc.st # "reading" THEN acc
    ELSE IF i > Len(ls) THEN [acc EXCEPT !.st = "returned"]
    ELSE StreamFrom(StreamStep(acc, ls[i]), ls, i + 1)

RunStream(ls) == StreamFrom(StartAcc, ls, 1)

\* What an attempt can end with: the text a returning stream accumulated, and
\* the text a raising stream had accumulated when it raised.
ReturnedTexts == {RunStream(ls).content : ls \in {l \in Streams : RunStream(l).st = "returned"}}
RaisedTexts == {RunStream(ls).content : ls \in {l \in Streams : RunStream(l).st = "raised"}}

(***************************************************************************)
(* _stream_request, line by line.                                          *)
(***************************************************************************)
Acc == [st |-> spc, content |-> content, reasoning |-> reasoning, usage |-> usage_info]

StreamLine ==
    /\ spc = "reading"
    /\ pos <= Len(lines)
    /\ LET n == StreamStep(Acc, lines[pos])
       IN /\ spc' = n.st
          /\ content' = n.content
          /\ reasoning' = n.reasoning
          /\ usage_info' = n.usage
    /\ pos' = pos + 1
    /\ UNCHANGED lines

StreamClose ==
    /\ spc = "reading"
    /\ pos > Len(lines)
    /\ spc' = "returned"
    /\ UNCHANGED <<lines, pos, content, reasoning, usage_info>>

StreamIdle ==
    /\ lines = <<>> /\ pos = 1 /\ content = Empty /\ reasoning = Empty
    /\ usage_info = "none" /\ spc = "idle"

SendIdle ==
    /\ tpc = "idle" /\ attempt = 0 /\ ret = [kind |-> "none", text |-> Empty]
    /\ answer = "" /\ rounds = 0 /\ http = 0 /\ fails = 0 /\ shown = 0
    /\ lastAttempt = "none" /\ lastGot = Empty
    /\ lastLog = [st |-> "none", text |-> Empty]



(***************************************************************************)
(* ApiClient.send_request / _send_with_retry.                              *)
(***************************************************************************)
NoRet == [kind |-> "none", text |-> Empty]
NoLog == [st |-> "none", text |-> Empty]

\* What the operator can type at input(); input() strips only the newline.
Answers == {"", "s", "S", "q", "Q", "r", " s", "sq"}

\* str.lower()
Lower(a) == IF a = "S" THEN "s" ELSE IF a = "Q" THEN "q" ELSE a

\* The interaction log of one attempt: line 68 runs only when _stream_request
\* returned, and _save_interaction_log swallows a failed write (lines 146-147).
LogOfAnyContent(ok, got, wok) ==
    IF ok \/ got # Empty
    THEN [st |-> IF wok THEN "written" ELSE "writefail", text |-> got]
    ELSE NoLog

LogOf(ok, got, wok) ==
    IF ok THEN [st |-> IF wok THEN "written" ELSE "writefail", text |-> got]
    ELSE NoLog

\* send_request: builds the request and enters _send_with_retry.
SendRequest ==
    /\ tpc \in {"idle", "returned", "skipped"}
    /\ tpc' = "attempt"
    /\ attempt' = 0
    /\ ret' = NoRet
    /\ answer' = ""
    /\ rounds' = 0 /\ http' = 0 /\ fails' = 0 /\ shown' = 0
    /\ lastAttempt' = "none" /\ lastGot' = Empty /\ lastLog' = NoLog

\* One pass of the try block whose _stream_request returned.
AttemptOk ==
    /\ tpc = "attempt"
    /\ \E got \in ReturnedTexts, wok \in BOOLEAN :
         /\ lastLog' = LogOf(TRUE, got, wok)
         /\ lastGot' = got
         /\ ret' = [kind |-> "text", text |-> got]
    /\ tpc' = "returned"
    /\ lastAttempt' = "ok"
    /\ http' = http + 1
    /\ UNCHANGED <<attempt, answer, rounds, fails, shown>>

\* One pass of the try block that raised: requests.post or raise_for_status
\* failed (nothing received), or the stream raised after `got` was received.
\* After the third failure of the round the loop ends and input() is called.
AttemptFail ==
    /\ tpc = "attempt"
    /\ \E got \in {Empty} \cup RaisedTexts, wok \in BOOLEAN :
         /\ lastGot' = got
         /\ lastLog' = LogOf(FALSE, got, wok)
    /\ lastAttempt' = "fail"
    /\ http' = http + 1
    /\ fails' = fails + 1
    /\ IF attempt + 1 < AttemptsPerRound
       THEN /\ attempt' = attempt + 1
            /\ UNCHANGED <<tpc, rounds, shown>>
       ELSE /\ tpc' = "prompt"
            /\ rounds' = rounds + 1
            /\ shown' = shown + 1
            /\ UNCHANGED attempt
    /\ UNCHANGED <<ret, answer>>

\* choice == 's': return None
ChooseSkipOnEnter ==
    /\ tpc = "prompt"
    /\ \E raw \in Answers :
         /\ Lower(raw) \in {"s", ""}
         /\ answer' = raw
    /\ tpc' = "skipped"
    /\ ret' = [kind |-> "null", text |-> Empty]
    /\ UNCHANGED <<attempt, rounds, http, fails, shown, lastAttempt, lastGot, lastLog>>

ChooseSkip ==
    /\ tpc = "prompt"
    /\ \E raw \in Answers :
         /\ Lower(raw) = "s"
         /\ answer' = raw
    /\ tpc' = "skipped"
    /\ ret' = [kind |-> "null", text |-> Empty]
    /\ UNCHANGED <<attempt, rounds, http, fails, shown, lastAttempt, lastGot, lastLog>>

\* choice == 'q': raise KeyboardInterrupt
ChooseAbort ==
    /\ tpc = "prompt"
    /\ \E raw \in Answers :
         /\ Lower(raw) = "q"
         /\ answer' = raw
    /\ tpc' = "aborted"
    /\ ret' = [kind |-> "raise", text |-> Empty]
    /\ UNCHANGED <<attempt, rounds, http, fails, shown, lastAttempt, lastGot, lastLog>>

\* any other answer: `while True` starts the for loop again
ChooseRetryKeepsCount ==
    /\ tpc = "prompt"
    /\ rounds < MaxRounds
    /\ \E raw \in Answers :
         /\ Lower(raw) \notin {"s", "q"}
         /\ answer' = raw
    /\ tpc' = "attempt"
    /\ fails' = 0
    /\ shown' = 0
    /\ UNCHANGED <<attempt, ret, rounds, http, lastAttempt, lastGot, lastLog>>

ChooseRetry ==
    /\ tpc = "prompt"
    /\ rounds < MaxRounds
    /\ \E raw \in Answers :
         /\ Lower(raw) \notin {"s", "q"}
         /\ answer' = raw
    /\ tpc' = "attempt"
    /\ attempt' = 0
    /\ fails' = 0
    /\ shown' = 0
    /\ UNCHANGED <<ret, rounds, http, lastAttempt, lastGot, lastLog>>

SendStep ==
    \/ SendRequest
    \/ AttemptOk
    \/ AttemptFail
    \/ ChooseSkip
    \/ ChooseAbort
    \/ ChooseRetry


(***************************************************************************)
(* UserProfile: the memory store (src/user_profile.py).                    *)
(***************************************************************************)
Alphabet == {"a", "b"}
Text == SeqsUpTo(Alphabet, MaxFactLen)
Stores == SeqsUpTo(Text, MaxFacts)

\* A JSON value that may be missing or null: dict.get(key) giving None.
None == [has |-> FALSE, s |-> Empty]
Some(t) == [has |-> TRUE, s |-> t]
Optional == {None} \cup {Some(t) : t \in Text}

NoItem == [op |-> "none", old |-> None, new |-> None]

\* The history of the store at the entry of update(): kept or not, and the
\* list when it is kept.
NotKept == [on |-> FALSE, fs |-> <<>>]
Entered(b, fs) == IF b.on THEN [on |-> TRUE, fs |-> fs] ELSE b

\* `x in self.facts`
InFacts(fs, t) == \E i \in 1..Len(fs) : fs[i] = t

\* list.index(x): the first position holding x
IndexOf(fs, t) == CHOOSE i \in 1..Len(fs) : fs[i] = t /\ \A j \in 1..(i - 1) : fs[j] # t

RemoveAt(fs, i) == SubSeq(fs, 1, i - 1) \o SubSeq(fs, i + 1, Len(fs))

\* `sub in s` on strings
IsSubstr(sub, s) ==
    \E i \in 1..(Len(s) - Len(sub) + 1) : SubSeq(s, i, i + Len(sub) - 1) = sub

\* str.replace(old, new), old not empty: every non-overlapping occurrence,
\* left to right.
RECURSIVE Replace(_, _, _)
Replace(s, old, new) ==
    IF Len(s) < Len(old) THEN s
    ELSE IF SubSeq(s, 1, Len(old)) = old
         THEN new \o Replace(SubSeq(s, Len(old) + 1, Len(s)), old, new)
         ELSE <<Head(s)>> \o Replace(Tail(s), old, new)

\* [i for i, f in enumerate(self.facts) if frag in f]
Candidates(fs, frag) == {i \in 1..Len(fs) : IsSubstr(frag, fs[i])}

\* The file is read only by _load_profile, at construction and after the
\* operator's edit; between two reads the model keeps how the file stands to
\* self.facts, and a read of a list file may find any list in it.
\* _load_profile: a missing file, an unparsable file and JSON that is no list
\* all give []; a list gives its items.
FilesOnDisk == {"missing", "corrupt", "notlist", "synced"}
Loadable(f) == IF f = "synced" THEN Stores ELSE {<<>>}

\* self.facts changed in memory: a file that held the same list no longer does.
Departed(f, before, after) == IF f = "synced" /\ after # before THEN "stale" ELSE f

\* save_profile: open(path, 'w') then json.dump; an exception is logged and
\* swallowed. "ok": the file holds the list; "openfail": open raised, the file
\* is as it was; "writefail": the file was truncated and the dump broke off.
SaveOutcomes == {"ok", "openfail", "writefail"}
SaveProfile(old, how) ==
    IF how = "ok" THEN "synced"
    ELSE IF how = "openfail" THEN old
    ELSE "corrupt"

\* Handle Add, one item (lines 52-55).
AddFact(fs, t) == IF InFacts(fs, t) THEN fs ELSE Append(fs, t)

\* Handle Remove, one item (lines 58-74).
RemoveFactFirstContaining(fs, frag) ==
    IF ~frag.has \/ frag.s = Empty THEN fs
    ELSE LET cands == Candidates(fs, frag.s)
         IN IF cands # {}
            THEN RemoveAt(fs, CHOOSE i \in cands : \A j \in cands : i <= j)
            ELSE fs

RemoveFactExactOnly(fs, frag) ==
    IF ~frag.has \/ frag.s = Empty THEN fs
    ELSE IF InFacts(fs, frag.s) THEN RemoveAt(fs, IndexOf(fs, frag.s))
    ELSE fs

\* Handle Remove without the test of lines 59-60.
RemoveFactNoGuard(fs, frag) ==
    IF InFacts(fs, frag.s) THEN RemoveAt(fs, IndexOf(fs, frag.s))
    ELSE LET cands == Candidates(fs, frag.s)
         IN IF Cardinality(cands) = 1
            THEN RemoveAt(fs, CHOOSE i \in cands : TRUE)
            ELSE fs

RemoveFact(fs, frag) ==
    IF ~frag.has \/ frag.s = Empty THEN fs
    ELSE IF InFacts(fs, frag.s) THEN RemoveAt(fs, IndexOf(fs, frag.s))
    ELSE LET cands == Candidates(fs, frag.s)
         IN IF Cardinality(cands) = 1
            THEN RemoveAt(fs, CHOOSE i \in cands : TRUE)
            ELSE fs

RemoveWarns(fs, frag) ==
    /\ frag.has /\ frag.s # Empty
    /\ ~InFacts(fs, frag.s)
    /\ Cardinality(Candidates(fs, frag.s)) # 1

\* Handle Update, one item (lines 77-99).
UpdateFactWhole(fs, old, new) ==
    IF ~old.has \/ old.s = Empty \/ ~new.has THEN fs
    ELSE IF InFacts(fs, old.s)
         THEN [fs EXCEPT ![IndexOf(fs, old.s)] = new.s]
    ELSE LET cands == Candidates(fs, old.s)
         IN IF Cardinality(cands) = 1
            THEN [fs EXCEPT ![CHOOSE j \in cands : TRUE] = new.s]
            ELSE fs

UpdateFactGuessFirst(fs, old, new) ==
    IF ~old.has \/ old.s = Empty \/ ~new.has THEN fs
    ELSE IF InFacts(fs, old.s)
         THEN [fs EXCEPT ![IndexOf(fs, old.s)] = new.s]
    ELSE LET cands == Candidates(fs, old.s)
         IN IF cands # {}
            THEN LET i == CHOOSE j \in cands : \A k \in cands : j <= k
                 IN [fs EXCEPT ![i] = Replace(fs[i], old.s, new.s)]
            ELSE fs

UpdateFact(fs, old, new) ==
    IF ~old.has \/ old.s = Empty \/ ~new.has THEN fs
    ELSE IF InFacts(fs, old.s)
         THEN [fs EXCEPT ![IndexOf(fs, old.s)] = new.s]
    ELSE LET cands == Candidates(fs, old.s)
         IN IF Cardinality(cands) = 1
            THEN LET i == CHOOSE j \in cands : TRUE
                 IN [fs EXCEPT ![i] = Replace(fs[i], old.s, new.s)]
            ELSE fs

UpdateWarns(fs, old, new) ==
    /\ old.has /\ old.s # Empty /\ new.has
    /\ ~InFacts(fs, old.s)
    /\ Cardinality(Candidates(fs, old.s)) # 1

\* updated_count += 1 (lines 87, 96)
UpdateCounts(fs, old, new) ==
    /\ old.has /\ old.s # Empty /\ new.has
    /\ (InFacts(fs, old.s) \/ Cardinality(Candidates(fs, old.s)) = 1)

\* update(operations) is entered.
UpdateBegin ==
    /\ upc = "idle"
    /\ upc' = "add"
    /\ nItems' = 0
    /\ changed' = FALSE
    /\ item' = NoItem
    /\ prev' = facts
    /\ warned' = FALSE
    /\ skipped' = FALSE
    /\ UNCHANGED <<facts, file>>
    /\ begun' = Entered(begun, facts)

AddItem ==
    /\ upc = "add"
    /\ nItems < MaxItems
    /\ \E t \in Text :
         /\ Len(AddFact(facts, t)) <= MaxFacts
         /\ facts' = AddFact(facts, t)
         /\ item' = [op |-> "add", old |-> None, new |-> Some(t)]
         /\ changed' = (changed \/ ~InFacts(facts, t))
    /\ prev' = facts
    /\ warned' = FALSE
    /\ UNCHANGED skipped
    /\ nItems' = nItems + 1
    /\ file' = Departed(file, facts, facts')
    /\ UNCHANGED upc
    /\ UNCHANGED begun

AddDone ==
    /\ upc = "add"
    /\ upc' = "remove"
    /\ nItems' = 0
    /\ UNCHANGED <<facts, file, changed, item, prev, warned, skipped>>
    /\ UNCHANGED begun

\* Handle Remove with the targets resolved against the store as it stood
\* when update() was entered.
RemoveItemAgainstStart ==
    /\ upc = "remove"
    /\ nItems < MaxItems
    /\ \E frag \in Optional :
         LET hit == ~RemoveWarns(begun.fs, frag)
             fs == IF hit THEN RemoveFact(facts, frag) ELSE facts
         IN /\ facts' = fs
            /\ item' = [op |-> "remove", old |-> frag, new |-> None]
            /\ changed' = (changed \/ Len(fs) < Len(facts))
            /\ warned' = RemoveWarns(begun.fs, frag)
            /\ skipped' = (skipped \/ RemoveWarns(begun.fs, frag))
    /\ prev' = facts
    /\ nItems' = nItems + 1
    /\ file' = Departed(file, facts, facts')
    /\ UNCHANGED upc
    /\ UNCHANGED begun

RemoveItem ==
    /\ upc = "remove"
    /\ nItems < MaxItems
    /\ \E frag \in Optional :
         /\ facts' = RemoveFact(facts, frag)
         /\ item' = [op |-> "remove", old |-> frag, new |-> None]
         /\ changed' = (changed \/ Len(RemoveFact(facts, frag)) < Len(facts))
         /\ warned' = RemoveWarns(facts, frag)
         /\ skipped' = (skipped \/ RemoveWarns(facts, frag))
    /\ prev' = facts
    /\ nItems' = nItems + 1
    /\ file' = Departed(file, facts, facts')
    /\ UNCHANGED upc
    /\ UNCHANGED begun

RemoveDoneBackToAdd ==
    /\ upc = "remove"
    /\ upc' = "add"
    /\ nItems' = 0
    /\ UNCHANGED <<facts, file, changed, item, prev, warned, skipped>>
    /\ UNCHANGED begun

RemoveDone ==
    /\ upc = "remove"
    /\ upc' = "update"
    /\ nItems' = 0
    /\ UNCHANGED <<facts, file, changed, item, prev, warned, skipped>>
    /\ UNCHANGED begun

UpdateItemStopsOnSkip ==
    /\ upc = "update"
    /\ nItems < MaxItems
    /\ \E old \in Optional, new \in Optional :
         LET fs == UpdateFact(facts, old, new)
         IN /\ \A i \in 1..Len(fs) : Len(fs[i]) <= MaxFactLen
            /\ facts' = fs
            /\ item' = [op |-> "update", old |-> old, new |-> new]
            /\ changed' = (changed \/ UpdateCounts(facts, old, new))
            /\ warned' = UpdateWarns(facts, old, new)
            /\ skipped' = (skipped \/ UpdateWarns(facts, old, new))
            /\ upc' = IF UpdateWarns(facts, old, new) THEN "idle" ELSE upc
    /\ prev' = facts
    /\ nItems' = nItems + 1
    /\ file' = Departed(file, facts, facts')
    /\ UNCHANGED begun

UpdateItem ==
    /\ upc = "update"
    /\ nItems < MaxItems
    /\ \E old \in Optional, new \in Optional :
         LET fs == UpdateFact(facts, old, new)
         IN /\ \A i \in 1..Len(fs) : Len(fs[i]) <= MaxFactLen
            /\ facts' = fs
            /\ item' = [op |-> "update", old |-> old, new |-> new]
            /\ changed' = (changed \/ UpdateCounts(facts, old, new))
            /\ warned' = UpdateWarns(facts, old, new)
            /\ skipped' = (skipped \/ UpdateWarns(facts, old, new))
    /\ prev' = facts
    /\ nItems' = nItems + 1
    /\ file' = Departed(file, facts, facts')
    /\ UNCHANGED upc
    /\ UNCHANGED begun

\* update() raises in the middle of a list and is left without reaching line
\* 101: a remove item that is no string (a JSON number) makes `x in f` raise
\* TypeError at line 67 as soon as the store holds a fact, and an update item
\* that is no object makes update_item.get raise AttributeError at line 78.
UpdateRaises ==
    /\ \/ upc = "remove" /\ facts # <<>>
       \/ upc = "update"
    /\ nItems < MaxItems
    /\ upc' = "idle"
    /\ nItems' = 0
    /\ item' = [op |-> "raise", old |-> None, new |-> None]
    /\ prev' = facts
    /\ warned' = FALSE
    /\ skipped' = FALSE
    /\ UNCHANGED <<facts, file, changed>>
    /\ begun' = Entered(begun, facts)

\* The end of update(): save_profile() when a count is non-zero (lines 101-103).
UpdateDone ==
    /\ upc = "update"
    /\ upc' = "idle"
    /\ nItems' = 0
    /\ IF changed
       THEN \E how \in SaveOutcomes : file' = SaveProfile(file, how)
       ELSE UNCHANGED file
    /\ item' = NoItem
    /\ prev' = facts
    /\ warned' = FALSE
    /\ skipped' = FALSE
    /\ UNCHANGED <<facts, changed>>
    /\ begun' = Entered(begun, facts)

\* update_facts(new_facts): replace all and save (lines 109-113).
UpdateFacts ==
    /\ upc = "idle"
    /\ \E new \in Stores, how \in SaveOutcomes :
         /\ facts' = new
         /\ file' = SaveProfile(Departed(file, facts, new), how)
    /\ item' = [op |-> "replace_all", old |-> None, new |-> None]
    /\ prev' = facts'
    /\ UNCHANGED <<upc, nItems, changed, warned, skipped>>
    /\ begun' = Entered(begun, facts')

\* MemoryManager._prompt_manual_edit: the operator edits the file while the
\* program waits at input(), then the store is reloaded (analyzer.py:309-314).
ManualEditReload ==
    /\ upc = "idle"
    /\ \E f \in FilesOnDisk :
         /\ file' = f
         /\ facts' \in Loadable(f)
    /\ item' = [op |-> "reload", old |-> None, new |-> None]
    /\ prev' = facts'
    /\ UNCHANGED <<upc, nItems, changed, warned, skipped>>
    /\ begun' = Entered(begun, facts')

StoreStep ==
    \/ UpdateBegin
    \/ AddItem
    \/ AddDone
    \/ RemoveItem
    \/ RemoveDone
    \/ UpdateItem
    \/ UpdateRaises
    \/ UpdateDone
    \/ UpdateFacts
    \/ ManualEditReload

\* update() alone, one instruction after another.
InstrStep ==
    \/ UpdateBegin
    \/ AddItem
    \/ AddDone
    \/ RemoveItem
    \/ RemoveDone
    \/ UpdateItem
    \/ UpdateRaises
    \/ UpdateDone

\* UserProfile.__init__: self.facts = self._load_profile()
StoreLoaded ==
    /\ file \in FilesOnDisk
    /\ facts \in Loadable(file)
    /\ upc = "idle" /\ nItems = 0 /\ changed = FALSE
    /\ item = NoItem /\ prev = facts /\ warned = FALSE /\ skipped = FALSE
    /\ begun = NotKept

\* The same with a profile file that holds the list, and the history kept.
StoreTraced ==
    /\ file = "synced"
    /\ facts \in Loadable(file)
    /\ upc = "idle" /\ nItems = 0 /\ changed = FALSE
    /\ item = NoItem /\ prev = facts /\ warned = FALSE /\ skipped = FALSE
    /\ begun = [on |-> TRUE, fs |-> facts]

\* The store of a process that has no profile file.
StoreIdle ==
    /\ file = "missing"
    /\ facts = <<>>
    /\ upc = "idle" /\ nItems = 0 /\ changed = FALSE
    /\ item = NoItem /\ prev = <<>> /\ warned = FALSE /\ skipped = FALSE
    /\ begun = NotKept

(***************************************************************************)
(* The run: DiaryAssistant.run (src/main.py), the generate_* methods of    *)
(* DeepSeekAnalyzer and MemoryManager (src/analyzer.py), down to the       *)
(* transport above.  The run sees the store through get_profile_length()   *)
(* only, so the store is carried here by that length.                      *)
(*   rpc: "off" | "summaries" | "sum_call" | "daily" | "eval_call" |       *)
(*        "extract" | "optimize" | "compress" | "cmp_call" | "menu" |      *)
(*        "after_loop" | "prune_call" | "final" | "strip" | "eval_done" |  *)
(*        "ana" | "ana_call" | "ana_done" | "unwind_extract" |             *)
(*        "unwind_run" | "done" | "halted" | "interrupted" | "crashed"     *)
(***************************************************************************)
\* check_and_optimize: `if current_length <= 4000: return`
HardLimit == 4000
\* `sum(len(f) for f in new_facts) >= 1200`
MinAccepted == 1200
\* `if current_length > 2400`, `if self.user_profile.get_profile_length() > 2400`
SoftLimit == 2400
\* check_and_optimize: `for attempt in range(3)`
CompressAttempts == 3
\* Config.ENABLE_MEMORY_CONSOLIDATION
ENABLE_MEMORY_CONSOLIDATION == TRUE

\* Store lengths on both sides of every threshold.
LenSamples ==
    {MinAccepted - 1, MinAccepted, SoftLimit, SoftLimit + 1, HardLimit, HardLimit + 1}

Diary == [commented : BOOLEAN, sunday : BOOLEAN]
DiaryLists == {ds \in SeqsUpTo(Diary, MaxDiaries) : Len(ds) >= 1}

\* A non-empty response, as extract_and_apply_updates sees it:
\*   plain   the regex of line 165 finds no fenced block
\*   block   a block that parses and has the key "memory_updates"
\*   nokey   a block that parses, "memory_updates" not among its keys
\*   broken  a block json.loads or UserProfile.update raises on
Shapes == {"plain", "block", "nokey", "broken"}

\* The text the pipeline hands back, as `if evaluation` and `if content` see
\* it: "text" (the response, which had no block), "stripped" (the response
\* with its block removed), "raw" (the response as it came, block included,
\* after line 175-177) are non-empty strings; "none" is None or ''.
Narrative(r) == r \in {"text", "stripped", "raw"}

\* `not summary`, `if content`, `if evaluation`: None and '' are both false.
Falsy(r) == r.kind = "null" \/ r.text = Empty

\* _parse_memory_response: None (<<>>), or a list of strings given by the
\* sum of their lengths; an empty list is as false as None at line 197.
Parsed(r) == IF Falsy(r) THEN {<<>>} ELSE {<<>>} \cup {<<n>> : n \in LenSamples}

\* Line 197 without the floor: any non-empty list is taken.
AcceptedAnyList(p) == p # <<>>

\* `new_facts and sum(len(f) for f in new_facts) >= 1200`
Accepted(p) == p # <<>> /\ p[1] >= MinAccepted

\* _backup_memory: the snapshot holds the facts as they are (here: their
\* length); a failed write is logged and swallowed (lines 245-246).
NoBackup == [st |-> "none", len |-> 0]
BackupMemory(n, ok) ==
    IF ok THEN [st |-> "written", len |-> n] ELSE [st |-> "failed", len |-> 0]

\* What the operator can type at the compaction menu, and str.strip().
MenuAnswers == {"1", "2", "3", "4", "", " 2", "5", "q"}
Strip(a) == IF a = " 2" THEN "2" ELSE a

\* The places where the run waits for send_request.
CallSites == {"sum_call", "eval_call", "ana_call", "cmp_call", "prune_call"}
\* The calls made inside the try block of extract_and_apply_updates.
InExtract == {"cmp_call", "prune_call"}

\* Where _process_memory_updates hands the text back.
Post(p) == IF p = "eval" THEN "eval_done" ELSE "ana_done"

\* History: what was done after the operator chose to abort.
Marked(kind) == IF aborted THEN late \cup {kind} ELSE late

\* The frame of _send_with_retry is left: its locals are gone.
SendForget ==
    /\ tpc' = "idle" /\ attempt' = 0 /\ ret' = NoRet /\ answer' = ""
    /\ rounds' = 0 /\ http' = 0 /\ fails' = 0 /\ shown' = 0
    /\ lastAttempt' = "none" /\ lastGot' = Empty /\ lastLog' = NoLog

\* extract_and_apply_updates, `except Exception as e` (line 175).
ExtractCatchesAll(e) == e # "none"

\* A handler that lets everything pass.
ExtractCatchesNothing(e) == FALSE

ExtractCatches(e) == e = "Exception"

\* DiaryAssistant.run: `except KeyboardInterrupt` (252), `except Exception` (254).
RunHandler(e) == IF e = "KeyboardInterrupt" THEN "interrupted" ELSE "crashed"

\* ---- the transport, as the run drives it --------------------------------
RunAttempt ==
    /\ rpc \in CallSites
    /\ (AttemptOk \/ AttemptFail)
    /\ late' = Marked("request")
    /\ UNCHANGED <<rpc, weeksLeft, diaries, idx, pipe, resp, profLen, curLen,
                   cAttempt, menuRounds, exc, aborted>>
    /\ UNCHANGED backup
    /\ UNCHANGED newFacts
    /\ wrote' = FALSE
    /\ UNCHANGED calls
    /\ UNCHANGED prunes
    /\ UNCHANGED over
    /\ UNCHANGED prompted
    /\ UNCHANGED anaOut
    /\ UNCHANGED updated

RunSkip ==
    /\ rpc \in CallSites
    /\ ChooseSkip
    /\ late' = Marked("null")
    /\ UNCHANGED <<rpc, weeksLeft, diaries, idx, pipe, resp, profLen, curLen,
                   cAttempt, menuRounds, exc, aborted>>
    /\ UNCHANGED backup
    /\ UNCHANGED newFacts
    /\ wrote' = FALSE
    /\ UNCHANGED calls
    /\ UNCHANGED prunes
    /\ UNCHANGED over
    /\ UNCHANGED prompted
    /\ UNCHANGED anaOut
    /\ UNCHANGED updated

RunRetry ==
    /\ rpc \in CallSites
    /\ ChooseRetry
    /\ late' = Marked("retry")
    /\ UNCHANGED <<rpc, weeksLeft, diaries, idx, pipe, resp, profLen, curLen,
                   cAttempt, menuRounds, exc, aborted>>
    /\ UNCHANGED backup
    /\ UNCHANGED newFacts
    /\ wrote' = FALSE
    /\ UNCHANGED calls
    /\ UNCHANGED prunes
    /\ UNCHANGED over
    /\ UNCHANGED prompted
    /\ UNCHANGED anaOut
    /\ UNCHANGED updated

\* The operator answers 'q' at the escalation prompt.
RunAbort ==
    /\ rpc \in CallSites
    /\ ChooseAbort
    /\ aborted' = TRUE
    /\ UNCHANGED <<rpc, weeksLeft, diaries, idx, pipe, resp, profLen, curLen,
                   cAttempt, menuRounds, exc, late>>
    /\ UNCHANGED backup
    /\ UNCHANGED newFacts
    /\ wrote' = FALSE
    /\ UNCHANGED calls
    /\ UNCHANGED prunes
    /\ UNCHANGED over
    /\ UNCHANGED prompted
    /\ UNCHANGED anaOut
    /\ UNCHANGED updated

\* The KeyboardInterrupt of line 80 leaves send_request.  No frame between
\* the transport and extract_and_apply_updates, or between the transport and
\* run, has a handler.
SendRaised ==
    /\ rpc \in CallSites
    /\ tpc = "aborted"
    /\ exc' = "KeyboardInterrupt"
    /\ rpc' = IF rpc \in InExtract THEN "unwind_extract" ELSE "unwind_run"
    /\ SendForget
    /\ UNCHANGED <<weeksLeft, diaries, idx, pipe, resp, profLen, curLen,
                   cAttempt, menuRounds, aborted, late>>
    /\ UNCHANGED backup
    /\ UNCHANGED newFacts
    /\ wrote' = FALSE
    /\ UNCHANGED calls
    /\ UNCHANGED prunes
    /\ UNCHANGED over
    /\ UNCHANGED prompted
    /\ UNCHANGED anaOut
    /\ UNCHANGED updated

\* ---- check_and_generate_weekly_summaries ----------------------------------
SummaryCall ==
    /\ rpc = "summaries"
    /\ weeksLeft > 0
    /\ SendRequest
    /\ rpc' = "sum_call"
    /\ resp' = "none"
    /\ UNCHANGED <<weeksLeft, diaries, idx, pipe, profLen, curLen,
                   cAttempt, menuRounds, exc, aborted, late>>
    /\ UNCHANGED backup
    /\ UNCHANGED newFacts
    /\ wrote' = FALSE
    /\ UNCHANGED calls
    /\ UNCHANGED prunes
    /\ UNCHANGED over
    /\ UNCHANGED prompted
    /\ UNCHANGED anaOut
    /\ UNCHANGED updated

\* generate_weekly_summary ending in _process_memory_updates, as the other
\* two generate_* methods do.
SummaryReturnThroughPipeline ==
    /\ rpc = "sum_call"
    /\ tpc \in {"returned", "skipped"}
    /\ IF Falsy(ret)
       THEN /\ rpc' = "halted"
            /\ late' = Marked("error")
            /\ UNCHANGED <<weeksLeft, resp>>
       ELSE /\ weeksLeft' = weeksLeft - 1
            /\ late' = Marked("write")
            /\ \E shape \in Shapes :
                 /\ resp' = shape
                 /\ rpc' = IF shape = "plain" THEN "summaries" ELSE "extract"
    /\ SendForget
    /\ UNCHANGED <<diaries, idx, pipe, profLen, curLen, cAttempt,
                   menuRounds, exc, aborted>>
    /\ UNCHANGED backup
    /\ UNCHANGED newFacts
    /\ wrote' = FALSE
    /\ UNCHANGED calls
    /\ UNCHANGED prunes
    /\ UNCHANGED over
    /\ UNCHANGED prompted
    /\ UNCHANGED anaOut
    /\ UNCHANGED updated

\* generate_weekly_summary returns what send_request returned (line 568);
\* `if not summary: ... return False`, and run stops with an error; otherwise
\* save_summary, which swallows a failed write.  `resp` is the summary in
\* hand, by the shape of its text.
SummaryReturn ==
    /\ rpc = "sum_call"
    /\ tpc \in {"returned", "skipped"}
    /\ IF Falsy(ret)
       THEN /\ rpc' = "halted"
            /\ late' = Marked("error")
            /\ UNCHANGED <<weeksLeft, resp>>
       ELSE /\ rpc' = "summaries"
            /\ weeksLeft' = weeksLeft - 1
            /\ late' = Marked("write")
            /\ \E shape \in Shapes : resp' = shape
    /\ SendForget
    /\ UNCHANGED <<diaries, idx, pipe, profLen, curLen, cAttempt,
                   menuRounds, exc, aborted>>
    /\ UNCHANGED backup
    /\ UNCHANGED newFacts
    /\ wrote' = FALSE
    /\ UNCHANGED calls
    /\ UNCHANGED prunes
    /\ UNCHANGED over
    /\ UNCHANGED prompted
    /\ UNCHANGED anaOut
    /\ UNCHANGED updated

SummariesDone ==
    /\ rpc = "summaries"
    /\ weeksLeft = 0
    /\ rpc' = "daily"
    /\ resp' = "none"
    /\ UNCHANGED <<weeksLeft, diaries, idx, pipe, profLen, curLen,
                   cAttempt, menuRounds, exc, aborted, late>>
    /\ UNCHANGED sendVars
    /\ UNCHANGED backup
    /\ UNCHANGED newFacts
    /\ wrote' = FALSE
    /\ UNCHANGED calls
    /\ UNCHANGED prunes
    /\ UNCHANGED over
    /\ UNCHANGED prompted
    /\ UNCHANGED anaOut
    /\ UNCHANGED updated

\* ---- process_daily_evaluations --------------------------------------------
\* `if diary.ai_comment: continue`
DailySkip ==
    /\ rpc = "daily"
    /\ idx <= Len(diaries)
    /\ diaries[idx].commented
    /\ idx' = idx + 1
    /\ UNCHANGED <<rpc, weeksLeft, diaries, pipe, resp, profLen, curLen,
                   cAttempt, menuRounds, exc, aborted, late>>
    /\ UNCHANGED sendVars
    /\ UNCHANGED backup
    /\ UNCHANGED newFacts
    /\ wrote' = FALSE
    /\ UNCHANGED calls
    /\ UNCHANGED prunes
    /\ UNCHANGED over
    /\ UNCHANGED prompted
    /\ UNCHANGED anaOut
    /\ UNCHANGED updated

\* generate_daily_evaluation up to its send_request
EvalCall ==
    /\ rpc = "daily"
    /\ idx <= Len(diaries)
    /\ ~diaries[idx].commented
    /\ SendRequest
    /\ rpc' = "eval_call"
    /\ pipe' = "eval"
    /\ UNCHANGED <<weeksLeft, diaries, idx, resp, profLen, curLen, cAttempt,
                   menuRounds, exc, aborted, late>>
    /\ UNCHANGED backup
    /\ UNCHANGED newFacts
    /\ wrote' = FALSE
    /\ UNCHANGED calls
    /\ UNCHANGED prunes
    /\ UNCHANGED over
    /\ UNCHANGED prompted
    /\ UNCHANGED anaOut
    /\ UNCHANGED updated

\* The loop is over; run logs the end of the program.
DailyDone ==
    /\ rpc = "daily"
    /\ idx > Len(diaries)
    /\ rpc' = "done"
    /\ UNCHANGED <<weeksLeft, diaries, idx, pipe, resp, profLen, curLen,
                   cAttempt, menuRounds, exc, aborted, late>>
    /\ UNCHANGED sendVars
    /\ UNCHANGED backup
    /\ UNCHANGED newFacts
    /\ wrote' = FALSE
    /\ UNCHANGED calls
    /\ UNCHANGED prunes
    /\ UNCHANGED over
    /\ UNCHANGED prompted
    /\ UNCHANGED anaOut
    /\ UNCHANGED updated

\* _process_memory_updates and the regex search of extract_and_apply_updates
ProcessMemoryUpdates ==
    /\ rpc \in {"eval_call", "ana_call"}
    /\ tpc \in {"returned", "skipped"}
    /\ IF Falsy(ret)
       THEN /\ resp' = "none"
            /\ rpc' = Post(pipe)
       ELSE \E shape \in Shapes :
              IF shape = "plain"
              THEN resp' = "text" /\ rpc' = Post(pipe)
              ELSE resp' = shape /\ rpc' = "extract"
    /\ SendForget
    /\ UNCHANGED <<weeksLeft, diaries, idx, pipe, profLen, curLen, cAttempt,
                   menuRounds, exc, aborted, late>>
    /\ UNCHANGED backup
    /\ UNCHANGED newFacts
    /\ wrote' = FALSE
    /\ UNCHANGED calls
    /\ UNCHANGED prunes
    /\ UNCHANGED over
    /\ UNCHANGED prompted
    /\ UNCHANGED anaOut
    /\ UNCHANGED updated

\* check_and_optimize called before user_profile.update (lines 172 and 173
\* the other way round).
ExtractApplyOptimizeFirst ==
    /\ rpc = "extract"
    /\ \/ /\ resp = "broken"
          /\ exc' = "Exception"
          /\ rpc' = "unwind_extract"
          /\ \/ UNCHANGED <<profLen, late, over>>
             \/ /\ \E n \in LenSamples : profLen' = n
                /\ late' = Marked("mutation")
                /\ over' = (profLen' > HardLimit)
          /\ wrote' = FALSE
       \/ /\ resp = "nokey"
          /\ rpc' = "strip"
          /\ UNCHANGED <<profLen, exc, late, over>>
          /\ wrote' = FALSE
       \/ /\ resp = "block"
          /\ UNCHANGED <<profLen, late, exc>>
          /\ wrote' = FALSE
          /\ over' = (profLen > HardLimit)
          /\ rpc' = "optimize"
    /\ UNCHANGED <<weeksLeft, diaries, idx, pipe, resp, curLen, cAttempt,
                   menuRounds, aborted>>
    /\ UNCHANGED sendVars
    /\ UNCHANGED backup
    /\ UNCHANGED newFacts
    /\ UNCHANGED calls
    /\ UNCHANGED prunes
    /\ prompted' = FALSE
    /\ UNCHANGED anaOut
    /\ updated' = "no"

\* The try block of extract_and_apply_updates up to check_and_optimize:
\* json.loads, the key test, user_profile.update.  On a broken block either
\* json.loads raises, or update() raises at an item (a number in "remove",
\* a string in "update") after the items before it were applied, and before
\* the save of line 101.
ExtractApply ==
    /\ rpc = "extract"
    /\ \/ /\ resp = "broken"
          /\ exc' = "Exception"
          /\ rpc' = "unwind_extract"
          /\ \/ UNCHANGED <<profLen, late, over>>
             \/ /\ \E n \in LenSamples : profLen' = n
                /\ late' = Marked("mutation")
                /\ over' = (profLen' > HardLimit)
          /\ wrote' = FALSE
       \/ /\ resp = "nokey"
          /\ rpc' = "strip"
          /\ UNCHANGED <<profLen, exc, late, over>>
          /\ wrote' = FALSE
       \/ /\ resp = "block"
          /\ \E n \in LenSamples :
               /\ profLen' = n
               /\ wrote' \in IF n # profLen THEN {TRUE} ELSE BOOLEAN
          /\ late' = Marked("mutation")
          /\ over' = (profLen' > HardLimit)
          /\ rpc' = "optimize"
          /\ UNCHANGED exc
    /\ UNCHANGED <<weeksLeft, diaries, idx, pipe, resp, curLen, cAttempt,
                   menuRounds, aborted>>
    /\ UNCHANGED sendVars
    /\ UNCHANGED backup
    /\ UNCHANGED newFacts
    /\ UNCHANGED calls
    /\ UNCHANGED prunes
    /\ prompted' = FALSE
    /\ UNCHANGED anaOut
    /\ updated' = IF resp # "block" THEN "no" ELSE IF wrote' THEN "saved" ELSE "unchanged"

\* check_and_optimize with `current_length < 4000` for line 185.
CheckAndOptimizeStrict ==
    /\ rpc = "optimize"
    /\ IF ~ENABLE_MEMORY_CONSOLIDATION \/ profLen < HardLimit
       THEN /\ rpc' = "strip"
            /\ UNCHANGED <<curLen, late, backup>>
       ELSE /\ curLen' = profLen
            /\ rpc' = "compress"
            /\ late' = Marked("write")
            /\ \E ok \in BOOLEAN : backup' = BackupMemory(profLen, ok)
    /\ cAttempt' = 0
    /\ menuRounds' = 0
    /\ UNCHANGED <<weeksLeft, diaries, idx, pipe, resp, profLen, exc, aborted>>
    /\ UNCHANGED sendVars
    /\ UNCHANGED newFacts
    /\ wrote' = FALSE
    /\ calls' = 0
    /\ prunes' = 0
    /\ UNCHANGED over
    /\ UNCHANGED prompted
    /\ UNCHANGED anaOut
    /\ UNCHANGED updated

\* check_and_optimize up to the loop: the two early returns, then the backup
\* (_backup_memory swallows a failed write).
CheckAndOptimize ==
    /\ rpc = "optimize"
    /\ IF ~ENABLE_MEMORY_CONSOLIDATION \/ profLen <= HardLimit
       THEN /\ rpc' = "strip"
            /\ UNCHANGED <<curLen, late, backup>>
       ELSE /\ curLen' = profLen
            /\ rpc' = "compress"
            /\ late' = Marked("write")
            /\ \E ok \in BOOLEAN : backup' = BackupMemory(profLen, ok)
    /\ cAttempt' = 0
    /\ menuRounds' = 0
    /\ UNCHANGED <<weeksLeft, diaries, idx, pipe, resp, profLen, exc, aborted>>
    /\ UNCHANGED sendVars
    /\ UNCHANGED newFacts
    /\ wrote' = FALSE
    /\ calls' = 0
    /\ prunes' = 0
    /\ UNCHANGED over
    /\ UNCHANGED prompted
    /\ UNCHANGED anaOut
    /\ UNCHANGED updated

\* _compress_memory up to its send_request
CompressCall ==
    /\ rpc = "compress"
    /\ SendRequest
    /\ rpc' = "cmp_call"
    /\ UNCHANGED <<weeksLeft, diaries, idx, pipe, resp, profLen, curLen,
                   cAttempt, menuRounds, exc, aborted, late>>
    /\ UNCHANGED backup
    /\ newFacts' = <<>>
    /\ wrote' = FALSE
    /\ calls' = calls + 1
    /\ UNCHANGED prunes
    /\ UNCHANGED over
    /\ UNCHANGED prompted
    /\ UNCHANGED anaOut
    /\ UNCHANGED updated

\* The loop of line 194 with range(4).
CompressReturnFourRounds ==
    /\ rpc = "cmp_call"
    /\ tpc \in {"returned", "skipped"}
    /\ \E p \in Parsed(ret) :
         /\ newFacts' = p
         /\ IF Accepted(p)
            THEN /\ profLen' = p[1]
                 /\ curLen' = p[1]
                 /\ late' = Marked("mutation")
                 /\ rpc' = "after_loop"
                 /\ wrote' = TRUE
                 /\ UNCHANGED cAttempt
            ELSE /\ IF cAttempt + 1 < CompressAttempts + 1
                    THEN cAttempt' = cAttempt + 1 /\ rpc' = "compress"
                    ELSE rpc' = "menu" /\ UNCHANGED cAttempt
                 /\ UNCHANGED <<profLen, curLen, late>>
                 /\ wrote' = FALSE
    /\ SendForget
    /\ UNCHANGED <<weeksLeft, diaries, idx, pipe, resp, menuRounds, exc, aborted>>
    /\ UNCHANGED backup
    /\ UNCHANGED calls
    /\ UNCHANGED prunes
    /\ UNCHANGED over
    /\ UNCHANGED prompted
    /\ UNCHANGED anaOut
    /\ UNCHANGED updated

\* _compress_memory returns; lines 197-204.
CompressReturn ==
    /\ rpc = "cmp_call"
    /\ tpc \in {"returned", "skipped"}
    /\ \E p \in Parsed(ret) :
         /\ newFacts' = p
         /\ IF Accepted(p)
            THEN /\ profLen' = p[1]
                 /\ curLen' = p[1]
                 /\ late' = Marked("mutation")
                 /\ rpc' = "after_loop"
                 /\ wrote' = TRUE
                 /\ UNCHANGED cAttempt
            ELSE /\ IF cAttempt + 1 < CompressAttempts
                    THEN cAttempt' = cAttempt + 1 /\ rpc' = "compress"
                    ELSE rpc' = "menu" /\ UNCHANGED cAttempt
                 /\ UNCHANGED <<profLen, curLen, late>>
                 /\ wrote' = FALSE
    /\ SendForget
    /\ UNCHANGED <<weeksLeft, diaries, idx, pipe, resp, menuRounds, exc, aborted>>
    /\ UNCHANGED backup
    /\ UNCHANGED calls
    /\ UNCHANGED prunes
    /\ UNCHANGED over
    /\ UNCHANGED prompted
    /\ UNCHANGED anaOut
    /\ UNCHANGED updated

\* choice == '1': continue
MenuContinue ==
    /\ rpc = "menu"
    /\ menuRounds < MaxMenuRounds
    /\ \E raw \in MenuAnswers : Strip(raw) = "1"
    /\ rpc' = "compress"
    /\ cAttempt' = 0
    /\ menuRounds' = menuRounds + 1
    /\ UNCHANGED <<weeksLeft, diaries, idx, pipe, resp, profLen, curLen, exc,
                   aborted, late>>
    /\ UNCHANGED sendVars
    /\ UNCHANGED backup
    /\ UNCHANGED newFacts
    /\ wrote' = FALSE
    /\ calls' = 0
    /\ UNCHANGED prunes
    /\ UNCHANGED over
    /\ UNCHANGED prompted
    /\ UNCHANGED anaOut
    /\ UNCHANGED updated

\* choice == '2': break
MenuDiscard ==
    /\ rpc = "menu"
    /\ \E raw \in MenuAnswers : Strip(raw) = "2"
    /\ rpc' = "after_loop"
    /\ UNCHANGED <<weeksLeft, diaries, idx, pipe, resp, profLen, curLen,
                   cAttempt, menuRounds, exc, aborted, late>>
    /\ UNCHANGED sendVars
    /\ UNCHANGED backup
    /\ UNCHANGED newFacts
    /\ wrote' = FALSE
    /\ UNCHANGED calls
    /\ UNCHANGED prunes
    /\ UNCHANGED over
    /\ UNCHANGED prompted
    /\ UNCHANGED anaOut
    /\ UNCHANGED updated

\* choice == '3': _prompt_manual_edit, then return
MenuManual ==
    /\ rpc = "menu"
    /\ \E raw \in MenuAnswers : Strip(raw) = "3"
    /\ \E n \in LenSamples : profLen' = n
    /\ late' = Marked("mutation")
    /\ rpc' = "strip"
    /\ UNCHANGED <<weeksLeft, diaries, idx, pipe, resp, curLen, cAttempt,
                   menuRounds, exc, aborted>>
    /\ UNCHANGED sendVars
    /\ UNCHANGED backup
    /\ newFacts' = <<>>
    /\ wrote' = FALSE
    /\ calls' = 0
    /\ UNCHANGED prunes
    /\ UNCHANGED over
    /\ prompted' = TRUE
    /\ UNCHANGED anaOut
    /\ UNCHANGED updated

\* choice == '4', or anything else: raise KeyboardInterrupt (lines 224, 227)
MenuAbort ==
    /\ rpc = "menu"
    /\ \E raw \in MenuAnswers : Strip(raw) \notin {"1", "2", "3"}
    /\ exc' = "KeyboardInterrupt"
    /\ aborted' = TRUE
    /\ rpc' = "unwind_extract"
    /\ UNCHANGED <<weeksLeft, diaries, idx, pipe, resp, profLen, curLen,
                   cAttempt, menuRounds, late>>
    /\ UNCHANGED sendVars
    /\ UNCHANGED backup
    /\ newFacts' = <<>>
    /\ wrote' = FALSE
    /\ calls' = 0
    /\ UNCHANGED prunes
    /\ UNCHANGED over
    /\ UNCHANGED prompted
    /\ UNCHANGED anaOut
    /\ UNCHANGED updated

\* Line 230 with `>=`.
PruneCallAtCeiling ==
    /\ rpc = "after_loop"
    /\ curLen >= SoftLimit
    /\ SendRequest
    /\ rpc' = "prune_call"
    /\ UNCHANGED <<weeksLeft, diaries, idx, pipe, resp, profLen, curLen,
                   cAttempt, menuRounds, exc, aborted, late>>
    /\ UNCHANGED backup
    /\ newFacts' = <<>>
    /\ wrote' = FALSE
    /\ UNCHANGED calls
    /\ prunes' = prunes + 1
    /\ UNCHANGED over
    /\ UNCHANGED prompted
    /\ UNCHANGED anaOut
    /\ UNCHANGED updated

\* `if current_length > 2400`: _prune_if_needed up to its send_request
PruneCall ==
    /\ rpc = "after_loop"
    /\ curLen > SoftLimit
    /\ SendRequest
    /\ rpc' = "prune_call"
    /\ UNCHANGED <<weeksLeft, diaries, idx, pipe, resp, profLen, curLen,
                   cAttempt, menuRounds, exc, aborted, late>>
    /\ UNCHANGED backup
    /\ newFacts' = <<>>
    /\ wrote' = FALSE
    /\ UNCHANGED calls
    /\ prunes' = prunes + 1
    /\ UNCHANGED over
    /\ UNCHANGED prompted
    /\ UNCHANGED anaOut
    /\ UNCHANGED updated

PruneSkip ==
    /\ rpc = "after_loop"
    /\ curLen <= SoftLimit
    /\ rpc' = "final"
    /\ UNCHANGED <<weeksLeft, diaries, idx, pipe, resp, profLen, curLen,
                   cAttempt, menuRounds, exc, aborted, late>>
    /\ UNCHANGED sendVars
    /\ UNCHANGED backup
    /\ UNCHANGED newFacts
    /\ wrote' = FALSE
    /\ UNCHANGED calls
    /\ UNCHANGED prunes
    /\ UNCHANGED over
    /\ UNCHANGED prompted
    /\ UNCHANGED anaOut
    /\ UNCHANGED updated

\* _prune_if_needed after its send_request (lines 286-290)
PruneReturn ==
    /\ rpc = "prune_call"
    /\ tpc \in {"returned", "skipped"}
    /\ \E p \in Parsed(ret) :
         /\ newFacts' = p
         /\ IF Accepted(p)
            THEN profLen' = p[1] /\ late' = Marked("mutation") /\ wrote' = TRUE
            ELSE UNCHANGED <<profLen, late>> /\ wrote' = FALSE
    /\ rpc' = "final"
    /\ SendForget
    /\ UNCHANGED <<weeksLeft, diaries, idx, pipe, resp, curLen, cAttempt,
                   menuRounds, exc, aborted>>
    /\ UNCHANGED backup
    /\ UNCHANGED calls
    /\ UNCHANGED prunes
    /\ UNCHANGED over
    /\ UNCHANGED prompted
    /\ UNCHANGED anaOut
    /\ UNCHANGED updated

\* `if self.user_profile.get_profile_length() > 2400: self._prompt_manual_edit()`
FinalCheck ==
    /\ rpc = "final"
    /\ IF profLen > SoftLimit
       THEN /\ \E n \in LenSamples : profLen' = n
            /\ late' = Marked("mutation")
            /\ prompted' = TRUE
       ELSE UNCHANGED <<profLen, late, prompted>>
    /\ rpc' = "strip"
    /\ UNCHANGED <<weeksLeft, diaries, idx, pipe, resp, curLen, cAttempt,
                   menuRounds, exc, aborted>>
    /\ UNCHANGED sendVars
    /\ UNCHANGED backup
    /\ newFacts' = <<>>
    /\ wrote' = FALSE
    /\ UNCHANGED calls
    /\ UNCHANGED prunes
    /\ UNCHANGED over
    /\ UNCHANGED anaOut
    /\ UNCHANGED updated

\* `return content.replace(json_match.group(0), "").strip()`: what is left
\* may be the empty string.
ExtractReturn ==
    /\ rpc = "strip"
    /\ \E rest \in {"stripped", "none"} : resp' = rest
    /\ rpc' = Post(pipe)
    /\ curLen' = 0
    /\ backup' = NoBackup
    /\ UNCHANGED <<weeksLeft, diaries, idx, pipe, profLen, cAttempt,
                   menuRounds, exc, aborted, late>>
    /\ UNCHANGED sendVars
    /\ newFacts' = <<>>
    /\ wrote' = FALSE
    /\ calls' = 0
    /\ prunes' = 0
    /\ UNCHANGED over
    /\ UNCHANGED prompted
    /\ UNCHANGED anaOut
    /\ UNCHANGED updated

\* An exception reaches line 175: caught, logged as an error, and the text
\* is returned as it came; or it passes on to run.
UnwindExtract ==
    /\ rpc = "unwind_extract"
    /\ IF ExtractCatches(exc)
       THEN /\ exc' = "none"
            /\ resp' = "raw"
            /\ rpc' = Post(pipe)
            /\ late' = Marked("error")
            /\ backup' = NoBackup
            /\ prunes' = 0
       ELSE /\ rpc' = "unwind_run"
            /\ UNCHANGED <<exc, resp, late, backup, prunes>>
    /\ UNCHANGED <<weeksLeft, diaries, idx, pipe, profLen, curLen, cAttempt,
                   menuRounds, aborted>>
    /\ UNCHANGED sendVars
    /\ UNCHANGED newFacts
    /\ wrote' = FALSE
    /\ UNCHANGED calls
    /\ UNCHANGED over
    /\ UNCHANGED prompted
    /\ UNCHANGED anaOut
    /\ UNCHANGED updated

\* An exception reaches run's handlers (lines 252-255).
RunCatches ==
    /\ rpc = "unwind_run"
    /\ rpc' = RunHandler(exc)
    /\ late' = IF RunHandler(exc) = "crashed" THEN Marked("error") ELSE late
    /\ UNCHANGED <<weeksLeft, diaries, idx, pipe, resp, profLen, curLen,
                   cAttempt, menuRounds, exc, aborted>>
    /\ UNCHANGED sendVars
    /\ UNCHANGED backup
    /\ UNCHANGED newFacts
    /\ wrote' = FALSE
    /\ UNCHANGED calls
    /\ UNCHANGED prunes
    /\ UNCHANGED over
    /\ UNCHANGED prompted
    /\ UNCHANGED anaOut
    /\ UNCHANGED updated

\* process_daily_evaluations after generate_daily_evaluation: `if evaluation`,
\* append_ai_comment (False when the write fails), the Sunday test.
EvalDone ==
    /\ rpc = "eval_done"
    /\ IF Narrative(resp)
       THEN \E ok \in BOOLEAN :
              IF ok
              THEN /\ diaries' = [diaries EXCEPT ![idx].commented = TRUE]
                   /\ late' = Marked("write")
                   /\ IF diaries[idx].sunday
                      THEN rpc' = "ana" /\ UNCHANGED idx
                      ELSE rpc' = "daily" /\ idx' = idx + 1
              ELSE /\ rpc' = "daily"
                   /\ idx' = idx + 1
                   /\ late' = Marked("error")
                   /\ UNCHANGED diaries
       ELSE /\ rpc' = "daily"
            /\ idx' = idx + 1
            /\ late' = Marked("error")
            /\ UNCHANGED diaries
    /\ resp' = "none"
    /\ UNCHANGED <<weeksLeft, pipe, profLen, curLen, cAttempt, menuRounds,
                   exc, aborted>>
    /\ UNCHANGED sendVars
    /\ UNCHANGED backup
    /\ UNCHANGED newFacts
    /\ wrote' = FALSE
    /\ UNCHANGED calls
    /\ UNCHANGED prunes
    /\ over' = FALSE
    /\ prompted' = FALSE
    /\ UNCHANGED anaOut
    /\ updated' = "no"

\* generate_weekly_analysis up to its send_request
AnalysisCall ==
    /\ rpc = "ana"
    /\ SendRequest
    /\ rpc' = "ana_call"
    /\ pipe' = "ana"
    /\ UNCHANGED <<weeksLeft, diaries, idx, resp, profLen, curLen, cAttempt,
                   menuRounds, exc, aborted, late>>
    /\ UNCHANGED backup
    /\ UNCHANGED newFacts
    /\ wrote' = FALSE
    /\ UNCHANGED calls
    /\ UNCHANGED prunes
    /\ UNCHANGED over
    /\ UNCHANGED prompted
    /\ UNCHANGED anaOut
    /\ UNCHANGED updated

\* generate_weekly_analysis without the test of line 658.
AnalysisDoneNoTest ==
    /\ rpc = "ana_done"
    /\ late' = IF Narrative(resp) THEN Marked("write") ELSE late
    /\ anaOut' = resp
    /\ rpc' = "daily"
    /\ idx' = idx + 1
    /\ resp' = "none"
    /\ pipe' = "eval"
    /\ UNCHANGED <<weeksLeft, diaries, profLen, curLen, cAttempt, menuRounds,
                   exc, aborted>>
    /\ UNCHANGED sendVars
    /\ UNCHANGED backup
    /\ UNCHANGED newFacts
    /\ wrote' = FALSE
    /\ UNCHANGED calls
    /\ UNCHANGED prunes
    /\ over' = FALSE
    /\ prompted' = FALSE
    /\ updated' = "no"

\* `if content: self.save_analysis_result(...)`, which swallows a failed
\* write; the daily loop goes on.
AnalysisDone ==
    /\ rpc = "ana_done"
    /\ late' = IF Narrative(resp) THEN Marked("write") ELSE late
    /\ anaOut' = IF Narrative(resp) THEN resp ELSE anaOut
    /\ rpc' = "daily"
    /\ idx' = idx + 1
    /\ resp' = "none"
    /\ pipe' = "eval"
    /\ UNCHANGED <<weeksLeft, diaries, profLen, curLen, cAttempt, menuRounds,
                   exc, aborted>>
    /\ UNCHANGED sendVars
    /\ UNCHANGED backup
    /\ UNCHANGED newFacts
    /\ wrote' = FALSE
    /\ UNCHANGED calls
    /\ UNCHANGED prunes
    /\ over' = FALSE
    /\ prompted' = FALSE
    /\ updated' = "no"

RunStep ==
    \/ RunAttempt
    \/ RunSkip
    \/ RunRetry
    \/ RunAbort
    \/ SendRaised
    \/ SummaryCall
    \/ SummaryReturn
    \/ SummariesDone
    \/ DailySkip
    \/ EvalCall
    \/ DailyDone
    \/ ProcessMemoryUpdates
    \/ ExtractApply
    \/ CheckAndOptimize
    \/ CompressCall
    \/ CompressReturn
    \/ MenuContinue
    \/ MenuDiscard
    \/ MenuManual
    \/ MenuAbort
    \/ PruneCall
    \/ PruneSkip
    \/ PruneReturn
    \/ FinalCheck
    \/ ExtractReturn
    \/ UnwindExtract
    \/ RunCatches
    \/ EvalDone
    \/ AnalysisCall
    \/ AnalysisDone

\* No run in progress.
RunOff ==
    /\ rpc = "off" /\ weeksLeft = 0 /\ diaries = <<>> /\ idx = 1
    /\ pipe = "eval" /\ resp = "none" /\ profLen = 0 /\ curLen = 0
    /\ cAttempt = 0 /\ menuRounds = 0 /\ exc = "none"
    /\ aborted = FALSE /\ late = {}
    /\ backup = NoBackup
    /\ newFacts = <<>>
    /\ wrote = FALSE
    /\ calls = 0
    /\ prunes = 0
    /\ over = FALSE
    /\ prompted = FALSE
    /\ anaOut = "nofile"
    /\ updated = "no"

\* run after initialize() and load_diaries() returned True.
RunLoaded ==
    /\ rpc = "summaries"
    /\ weeksLeft \in 0..MaxWeeks
    /\ diaries \in DiaryLists
    /\ idx = 1
    /\ pipe = "eval" /\ resp = "none"
    /\ profLen \in LenSamples
    /\ curLen = 0 /\ cAttempt = 0 /\ menuRounds = 0
    /\ exc = "none" /\ aborted = FALSE /\ late = {}
    /\ backup = NoBackup
    /\ newFacts = <<>>
    /\ wrote = FALSE
    /\ calls = 0
    /\ prunes = 0
    /\ over = FALSE
    /\ prompted = FALSE
    /\ anaOut = "nofile"
    /\ updated = "no"

(***************************************************************************)
(* The profile file, character by character: json.dump in save_profile and *)
(* json.load in _load_profile (src/user_profile.py, lines 12-31).          *)
(* A character of a fact is "a" (a letter), "q" (the double quote), "k"    *)
(* (the backslash) or "s" (a lone surrogate, as json.loads makes of the    *)
(* escape \ud83d).  A character of the file is one of "a", "q", "k", or    *)
(* "[", "]", ",", "n" (the newline), " ".                                  *)
(***************************************************************************)
PChars == {"a", "q", "k", "s"}
PTexts == SeqsUpTo(PChars, MaxFactLen)

\* The file is opened with encoding='utf-8', which has no code for a lone
\* surrogate: f.write raises UnicodeEncodeError.
Encodable(t) == \A i \in 1..Len(t) : t[i] # "s"

\* json's encoding of one string with ensure_ascii=False: the quote and the
\* backslash are escaped by a backslash.
RECURSIVE Escaped(_)
Escaped(t) ==
    IF t = <<>> THEN <<>>
    ELSE (IF Head(t) \in {"q", "k"} THEN <<"k", Head(t)>> ELSE <<Head(t)>>)
             \o Escaped(Tail(t))

EncString(t) == <<"q">> \o Escaped(t) \o <<"q">>

\* json.dump(list, f, indent=2) hands the text to f.write in chunks: the i-th
\* item with what precedes it ("[\n  " or ",\n  "), then "\n]".
ChunkOf(fs, i) ==
    (IF i = 1 THEN <<"[", "n", " ", " ">> ELSE <<",", "n", " ", " ">>) \o EncString(fs[i])

RECURSIVE ChunksUpTo(_, _)
ChunksUpTo(fs, k) == IF k = 0 THEN <<>> ELSE ChunksUpTo(fs, k - 1) \o ChunkOf(fs, k)

DumpText(fs) ==
    IF fs = <<>> THEN <<"[", "]">> ELSE ChunksUpTo(fs, Len(fs)) \o <<"n", "]">>

\* What json.dump leaves in the file: the whole text, or the chunks before
\* the first one f.write could not encode.
WrittenText(fs) ==
    LET bad == {i \in 1..Len(fs) : ~Encodable(fs[i])}
    IN IF bad = {} THEN DumpText(fs)
       ELSE ChunksUpTo(fs, (CHOOSE i \in bad : \A j \in bad : i <= j) - 1)

\* The file: [st: "missing" | "unreadable" | "file", text, made], `made`
\* recording where the text came from.
MissingFile == [st |-> "missing", text |-> <<>>, made |-> "none"]
FileOf(text, made) == [st |-> "file", text |-> text, made |-> made]

\* save_profile on the file d: open(path, 'w') raised ("openfail", the file is
\* as it was), the write broke off on the device ("writefail", the file was
\* emptied by open), or json.dump ran ("ok"); every exception is swallowed.
SaveProfileFile(d, fs, how) ==
    IF how = "openfail" THEN d
    ELSE IF how = "writefail" THEN FileOf(<<>>, "dump")
    ELSE FileOf(WrittenText(fs), "dump")

\* ---- json.load --------------------------------------------------------------
RECURSIVE SkipWs(_, _)
SkipWs(t, i) == IF i <= Len(t) /\ t[i] \in {"n", " "} THEN SkipWs(t, i + 1) ELSE i

ParseFail == [ok |-> FALSE, val |-> <<>>, pos |-> 0]

\* A string literal from the character after its opening quote.
RECURSIVE StringBody(_, _, _)
StringBody(t, i, acc) ==
    IF i > Len(t) THEN ParseFail
    ELSE IF t[i] = "q" THEN [ok |-> TRUE, val |-> acc, pos |-> i + 1]
    ELSE IF t[i] = "k"
         THEN IF i + 1 <= Len(t) /\ t[i + 1] \in {"q", "k"}
              THEN StringBody(t, i + 2, Append(acc, t[i + 1]))
              ELSE ParseFail
    ELSE IF t[i] = "n" THEN ParseFail
    ELSE StringBody(t, i + 1, Append(acc, t[i]))

\* The items of an array from the first character of an item.
RECURSIVE ListItems(_, _, _)
ListItems(t, i, acc) ==
    IF i > Len(t) \/ t[i] # "q" THEN ParseFail
    ELSE LET s == StringBody(t, i + 1, <<>>)
             j == SkipWs(t, s.pos)
         IN IF ~s.ok \/ j > Len(t) THEN ParseFail
            ELSE IF t[j] = "," THEN ListItems(t, SkipWs(t, j + 1), Append(acc, s.val))
            ELSE IF t[j] = "]" THEN [ok |-> TRUE, val |-> Append(acc, s.val), pos |-> j + 1]
            ELSE ParseFail

\* json.load of the whole text: a string, an array of strings, or an error.
JsonLoad(t) ==
    LET bad == [ok |-> FALSE, kind |-> "none", val |-> <<>>]
        i == SkipWs(t, 1)
    IN IF i > Len(t) THEN bad
       ELSE IF t[i] = "q"
            THEN LET s == StringBody(t, i + 1, <<>>)
                 IN IF s.ok /\ SkipWs(t, s.pos) > Len(t)
                    THEN [ok |-> TRUE, kind |-> "str", val |-> <<>>]
                    ELSE bad
       ELSE IF t[i] = "["
            THEN LET j == SkipWs(t, i + 1)
                     r == IF j <= Len(t) /\ t[j] = "]"
                          THEN [ok |-> TRUE, val |-> <<>>, pos |-> j + 1]
                          ELSE ListItems(t, j, <<>>)
                 IN IF r.ok /\ SkipWs(t, r.pos) > Len(t)
                    THEN [ok |-> TRUE, kind |-> "list", val |-> r.val]
                    ELSE bad
       ELSE bad

\* _load_profile, lines 13-20: the existence test, open, json.load, the list
\* test; str(item) of a string is the string.
ReadProfile(d) ==
    IF d.st = "missing" THEN [raised |-> FALSE, facts |-> <<>>]
    ELSE IF d.st = "unreadable" THEN [raised |-> TRUE, facts |-> <<>>]
    ELSE LET j == JsonLoad(d.text)
         IN IF ~j.ok THEN [raised |-> TRUE, facts |-> <<>>]
            ELSE IF j.kind = "list" THEN [raised |-> FALSE, facts |-> j.val]
            ELSE [raised |-> FALSE, facts |-> <<>>]

\* _load_profile with its `except Exception` (lines 21-23).
LoadProfileNoHandler(d) == ReadProfile(d)

LoadProfile(d) ==
    LET r == ReadProfile(d)
    IN IF r.raised THEN [raised |-> FALSE, facts |-> <<>>] ELSE r

\* ---- what may be on disk when the program starts --------------------------
DiskLists == SeqsUpTo(SeqsUpTo({"a", "q", "k"}, 1), MaxFacts)
CutSample == DumpText(<< <<"a", "q">> >>)
DiskStates ==
    {MissingFile, [st |-> "unreadable", text |-> CutSample, made |-> "list"]}
        \cup {FileOf(DumpText(l), "list") : l \in DiskLists}
        \cup {FileOf(SubSeq(CutSample, 1, n), "cut") : n \in 0..(Len(CutSample) - 1)}
        \cup {FileOf(EncString(t), "string") : t \in SeqsUpTo({"a", "q", "k"}, 1)}

\* UserProfile.__init__
Construct ==
    /\ ppc = "start"
    /\ LET r == LoadProfile(disk)
       IN IF r.raised
          THEN ppc' = "crashed" /\ UNCHANGED facts
          ELSE ppc' = "loaded" /\ facts' = r.facts
    /\ UNCHANGED <<disk, fresh, io, edited>>

\* update_facts(new_facts): self.facts = new_facts; self.save_profile()
ReplaceAndSave ==
    /\ ppc = "loaded"
    /\ \E new \in SeqsUpTo(PTexts, MaxFacts), how \in SaveOutcomes :
         /\ facts' = new
         /\ disk' = SaveProfileFile(disk, new, how)
         /\ io' = how
    /\ ppc' = "saved"
    /\ UNCHANGED <<fresh, edited>>

\* A second UserProfile is constructed on the same file.
Reconstruct ==
    /\ ppc = "saved"
    /\ LET r == LoadProfile(disk)
       IN IF r.raised
          THEN ppc' = "crashed" /\ UNCHANGED fresh
          ELSE ppc' = "reloaded" /\ fresh' = r.facts
    /\ UNCHANGED <<facts, disk, io, edited>>

\* What the operator may leave in the file at the manual-edit pause: any of
\* the files above, or a list typed on one line.
HandEdits ==
    DiskStates \cup {FileOf(<<"[", "q", "a", "q", ",", " ", "q", "k", "k", "q", "]">>, "hand")}

\* _prompt_manual_edit without the reload of line 314.
PromptManualEditKeepsMemory ==
    /\ ppc \in {"loaded", "saved"}
    /\ \E e \in HandEdits :
         /\ disk' = e
         /\ edited' = e
         /\ UNCHANGED facts
    /\ ppc' = "edited"
    /\ UNCHANGED <<fresh, io>>

\* MemoryManager._prompt_manual_edit: the path is printed, input() waits
\* while the operator edits the file, then self.facts is what _load_profile
\* returns; the file is not written.
PromptManualEdit ==
    /\ ppc \in {"loaded", "saved"}
    /\ \E e \in HandEdits :
         /\ disk' = e
         /\ edited' = e
         /\ facts' = LoadProfile(e).facts
    /\ ppc' = "edited"
    /\ UNCHANGED <<fresh, io>>

PersistStep ==
    \/ Construct
    \/ ReplaceAndSave
    \/ Reconstruct
    \/ PromptManualEdit

PersistOff ==
    /\ ppc = "off" /\ disk = MissingFile /\ fresh = <<>> /\ io = "none"
    /\ edited = MissingFile

\* Before UserProfile is constructed.
PersistStart ==
    /\ ppc = "start" /\ disk \in DiskStates /\ fresh = <<>> /\ io = "none"
    /\ edited = MissingFile

(***************************************************************************)
(* MemoryManager.extract_and_apply_updates on the text of a response       *)
(* (src/analyzer.py, lines 163-177).  The text is a sequence of pieces:    *)
(*   "f"  a fence (three backticks)  "j"  the word json                    *)
(*   "w"  white space                "a"  any other narrative text         *)
(*   "{", "}"  braces                                                      *)
(*   "m"  the pair "memory_updates": <instruction>                         *)
(*   "v"  a pair under another key whose value is an object with the key   *)
(*        "memory_updates"                                                 *)
(*   "p"  a pair without that text                                         *)
(* UserProfile.update and check_and_optimize are taken by their outcomes,  *)
(* which the sections above give step by step.                             *)
(***************************************************************************)
\* What a response is put together from: narrative, white space, a fenced
\* block with the instruction, one whose JSON has no such key, one json.loads
\* rejects, a fenced JSON block without the text "memory_updates", and a
\* fenced block that is not JSON.
Segments ==
    { <<"a">>,
      <<"w">>,
      <<"f", "j", "w", "{", "m", "}", "w", "f">>,
      <<"f", "j", "w", "{", "v", "}", "w", "f">>,
      <<"f", "j", "w", "{", "m", "a", "}", "f">>,
      <<"f", "j", "w", "{", "p", "}", "w", "f">>,
      <<"f", "a", "f">> }

RECURSIVE Joined(_)
Joined(ss) == IF ss = <<>> THEN <<>> ELSE Head(ss) \o Joined(Tail(ss))

RECURSIVE SkipW(_, _)
SkipW(t, i) == IF i <= Len(t) /\ t[i] = "w" THEN SkipW(t, i + 1) ELSE i

Least(S) == CHOOSE x \in S : \A y \in S : x <= y

NoMatch == [found |-> FALSE, s |-> 0, e |-> 0, g1s |-> 0, g1e |-> 0]

\* The regex of line 165 tried at position i:
\*   ```json \s* ( \{ .*? "memory_updates" .*? \} ) \s* ```
\* with DOTALL.  The first lazy run ends at the first piece holding the quoted
\* text "memory_updates", the second at the first "}" that white space and three
\* backticks follow, whatever lies between.
MatchAt(t, i) ==
    IF ~(i + 1 <= Len(t) /\ t[i] = "f" /\ t[i + 1] = "j") THEN NoMatch
    ELSE LET k == SkipW(t, i + 2)
         IN IF ~(k <= Len(t) /\ t[k] = "{") THEN NoMatch
            ELSE LET ms == {p \in (k + 1)..Len(t) : t[p] \in {"m", "v"}}
                 IN IF ms = {} THEN NoMatch
                    ELSE LET qs == {q \in (Least(ms) + 1)..Len(t) :
                                      /\ t[q] = "}"
                                      /\ SkipW(t, q + 1) <= Len(t)
                                      /\ t[SkipW(t, q + 1)] = "f"}
                         IN IF qs = {} THEN NoMatch
                            ELSE [found |-> TRUE, s |-> i, e |-> SkipW(t, Least(qs) + 1),
                                  g1s |-> k, g1e |-> Least(qs)]

\* re.search: the match at the leftmost position that has one.
Search(t) ==
    LET starts == {i \in 1..Len(t) : MatchAt(t, i).found}
    IN IF starts = {} THEN NoMatch ELSE MatchAt(t, Least(starts))

\* json_match.group(0) and json_match.group(1)
Group0(t, m) == SubSeq(t, m.s, m.e)
Group1(t, m) == SubSeq(t, m.g1s, m.g1e)

\* json.loads(group(1)) returns: between the braces there are pairs and white
\* space only.  `"memory_updates" in updates`: one of the pairs has that key.
JsonObject(g) == \A i \in 2..(Len(g) - 1) : g[i] \in {"w", "m", "v", "p"}
HasKey(g) == \E i \in 1..Len(g) : g[i] = "m"

\* str.strip()
RECURSIVE LStrip(_)
LStrip(t) == IF t # <<>> /\ Head(t) = "w" THEN LStrip(Tail(t)) ELSE t

RECURSIVE RStrip(_)
RStrip(t) ==
    IF t # <<>> /\ t[Len(t)] = "w" THEN RStrip(SubSeq(t, 1, Len(t) - 1)) ELSE t

StripWs(t) == LStrip(RStrip(t))

\* UserProfile.update(updates["memory_updates"]): nothing counted, so no
\* save; a change saved; a change whose save failed (swallowed); an exception
\* before any item was applied; an exception at a later item, after earlier
\* items were applied and before the save.
UpdateOutcomes == {"nochange", "saved", "savefail", "raises", "midway"}

\* check_and_optimize: returns without touching the store; returns after a
\* compaction, a pruning or a manual edit; raises KeyboardInterrupt.
OptimizeOutcomes == {"idle", "compacted", "abort"}

\* re.search, and `if not json_match: return content`
ExtractSearch ==
    /\ xpc = "call"
    /\ found' = Search(xin)
    /\ IF found'.found
       THEN xpc' = "try" /\ UNCHANGED xout
       ELSE xpc' = "returned" /\ xout' = xin
    /\ UNCHANGED <<xin, xexc, applied, memCh, fileCh, logged>>

\* The try block up to its return statement (lines 170-173).
ExtractTry ==
    /\ xpc = "try"
    /\ LET g == Group1(xin, found)
       IN IF ~JsonObject(g)
          THEN /\ xexc' = "Exception"
               /\ xpc' = "except"
               /\ UNCHANGED <<applied, memCh, fileCh>>
          ELSE IF ~HasKey(g)
          THEN /\ xpc' = "strip"
               /\ UNCHANGED <<xexc, applied, memCh, fileCh>>
          ELSE \E u \in UpdateOutcomes, c \in OptimizeOutcomes :
                 /\ applied' = applied + 1
                 /\ IF u \in {"raises", "midway"}
                    THEN /\ xexc' = "Exception"
                         /\ xpc' = "except"
                         /\ memCh' = (u = "midway")
                         /\ fileCh' = FALSE
                    ELSE /\ memCh' = (u # "nochange" \/ c = "compacted")
                         /\ fileCh' = (u = "saved" \/ c = "compacted")
                         /\ IF c = "abort"
                            THEN xexc' = "KeyboardInterrupt" /\ xpc' = "except"
                            ELSE xpc' = "strip" /\ UNCHANGED xexc
    /\ UNCHANGED <<xin, xout, found, logged>>

\* Line 174 with str.replace(old, new, 1): the first occurrence only, and no
\* strip().
ExtractStripOnce ==
    /\ xpc = "strip"
    /\ xout' = SubSeq(xin, 1, found.s - 1) \o SubSeq(xin, found.e + 1, Len(xin))
    /\ xpc' = "returned"
    /\ UNCHANGED <<xin, found, xexc, applied, memCh, fileCh, logged>>

\* `return content.replace(json_match.group(0), "").strip()`
ExtractStrip ==
    /\ xpc = "strip"
    /\ xout' = StripWs(Replace(xin, Group0(xin, found), <<>>))
    /\ xpc' = "returned"
    /\ UNCHANGED <<xin, found, xexc, applied, memCh, fileCh, logged>>

\* `except Exception as e`: log, `return content`; anything else passes.
ExtractExcept ==
    /\ xpc = "except"
    /\ IF ExtractCatches(xexc)
       THEN /\ logged' = TRUE
            /\ xout' = xin
            /\ xpc' = "returned"
       ELSE /\ xpc' = "raised"
            /\ UNCHANGED <<logged, xout>>
    /\ UNCHANGED <<xin, found, xexc, applied, memCh, fileCh>>

ExtractStep ==
    \/ ExtractSearch
    \/ ExtractTry
    \/ ExtractStrip
    \/ ExtractExcept

\* No call in progress.
ExtractOff ==
    /\ xpc = "off" /\ xin = <<>> /\ xout = <<>> /\ found = NoMatch
    /\ xexc = "none" /\ applied = 0
    /\ memCh = FALSE /\ fileCh = FALSE /\ logged = FALSE

\* extract_and_apply_updates(content) is entered; _process_memory_updates
\* passes only a non-empty content.
ExtractCalled ==
    /\ xpc = "call"
    /\ xin \in {Joined(ss) : ss \in SeqsUpTo(Segments, MaxSegments)} \ {<<>>}
    /\ xout = <<>> /\ found = NoMatch
    /\ xexc = "none" /\ applied = 0
    /\ memCh = FALSE /\ fileCh = FALSE /\ logged = FALSE

(***************************************************************************)
(* ContextBuilder.build_todo_context on one todo line of one diary         *)
(* (src/analyzer.py, lines 474-530).  A line is a sequence of pieces:      *)
(*   "[", "]", "x"   the characters of a checkbox                          *)
(*   "w"  white space          "t"  any other text                         *)
(*   "c"  the completion mark (the check-mark emoji)                       *)
(*   a date piece: ten characters of the shape dddd-dd-dd                  *)
(***************************************************************************)
\* Date pieces, and the day of the year strptime('%Y-%m-%d') gives for each;
\* the last piece has the shape and is no date (ValueError).
DayNumber ==
    ("2026-01-21" :> 21) @@ ("2026-01-23" :> 23) @@ ("2026-01-24" :> 24)
        @@ ("2026-01-26" :> 26) @@ ("2026-01-31" :> 31) @@ ("2026-02-01" :> 32)

DateShaped == DOMAIN DayNumber \cup {"2026-13-45"}

\* datetime.now().date(), as a day of the year: 31 January or 1 February.
Todays == {31, 32}

\* `(today - completion_date).days > 7`
RecentDays == 7

\* How a line may begin: no checkbox, an open one, a completed one.
Boxes ==
    { <<>>, <<"[", "]">>, <<"[", "w", "]">>, <<"[", "x", "]">>,
      <<"[", "w", "x", "w", "]">> }

BodyPieces == {"t", "w", "c"} \cup DateShaped

\* ^\[\s*[xX]?\s*\]  (needX false) and  ^\[\s*[xX]\s*\]  (needX true) at the
\* start of the line: the position of the closing bracket, 0 without a match.
BoxEnd(l, needX) ==
    IF ~(l # <<>> /\ l[1] = "[") THEN 0
    ELSE LET a == SkipW(l, 2)
             hasX == a <= Len(l) /\ l[a] = "x"
             b == SkipW(l, IF hasX THEN a + 1 ELSE a)
         IN IF (needX => hasX) /\ b <= Len(l) /\ l[b] = "]" THEN b ELSE 0

\* re.sub(r'^\[\s*[xX]?\s*\]', '', todo).strip()
AfterBox(l) == StripWs(SubSeq(l, BoxEnd(l, FALSE) + 1, Len(l)))

\* re.match(r'^\[\s*[xX]\s*\]', todo)
IsCompleted(l) == BoxEnd(l, TRUE) > 0

\* re.search of the mark, white space, dddd-dd-dd: the positions where the
\* pattern matches, by the position of the date piece.
StampsAt(l) ==
    {j \in 1..Len(l) :
        /\ l[j] \in DateShaped
        /\ \E i \in 1..(j - 1) : l[i] = "c" /\ SkipW(l, i + 1) = j}

\* Lines 485-505 for one line: TRUE when the line goes to valid_todos.
KeepsAtLimit(l, now, limit) ==
    IF AfterBox(l) = <<>> THEN FALSE
    ELSE IF ~IsCompleted(l) THEN TRUE
    ELSE IF StampsAt(l) = {} THEN FALSE
    ELSE LET d == l[Least(StampsAt(l))]
         IN IF d \notin DOMAIN DayNumber THEN FALSE
            ELSE ~(now - DayNumber[d] > limit)

\* The test written as `>= 7`.
KeepsBelowLimit(l, now) == KeepsAtLimit(l, now, RecentDays - 1)

Keeps(l, now) == KeepsAtLimit(l, now, RecentDays)

\* The inner loop, for the one line of the diary.
FilterTodo ==
    /\ dpc = "filter"
    /\ valid' = IF Keeps(todo, today) THEN <<todo>> ELSE <<>>
    /\ dpc' = "emit"
    /\ UNCHANGED <<todo, today, digest>>

\* `if not valid_todos: continue`, else the heading and the lines.
EmitDiary ==
    /\ dpc = "emit"
    /\ digest' = IF valid = <<>> THEN <<>> ELSE <<<<"#">>>> \o valid
    /\ dpc' = "built"
    /\ UNCHANGED <<todo, today, valid>>

\* `if not has_todos: return ""`, else the legend and the parts.
ReturnTodoContext ==
    /\ dpc = "built"
    /\ digest' = IF digest = <<>> THEN <<>> ELSE <<<<"t">>>> \o digest
    /\ dpc' = "returned"
    /\ UNCHANGED <<todo, today, valid>>

TodoStep == FilterTodo \/ EmitDiary \/ ReturnTodoContext

TodoOff ==
    /\ dpc = "off" /\ todo = <<>> /\ today = 0 /\ valid = <<>> /\ digest = <<>>

\* build_todo_context is entered with one diary that has one todo line.
TodoCalled ==
    /\ dpc = "filter"
    /\ \E b \in Boxes, r \in SeqsUpTo(BodyPieces, MaxBody) : todo = b \o r
    /\ today \in Todays
    /\ valid = <<>> /\ digest = <<>>

(***************************************************************************)
(* ApiClient._save_interaction_log over successive calls                   *)
(* (src/analyzer.py, lines 125-147).  The clock counts whole seconds, the  *)
(* resolution of strftime("%Y%m%d_%H%M%S"); a task label is a sequence of  *)
(* characters; the directory maps a file name to the call that wrote it.   *)
(***************************************************************************)
\* Task labels: the compaction label, the evaluation label, and two labels
\* with a character the file name may not hold.
TaskLabels == { <<"z">>, <<"e">>, <<"e", "/", "z">>, <<"e", ":", "z">> }

\* re.sub(r'[\\/*?:"<>|]', '_', task_name)
Unsafe == {"\\", "/", "*", "?", ":", "\"", "<", ">", "|"}
SafeName(label) == [i \in 1..Len(label) |-> IF label[i] \in Unsafe THEN "_" ELSE label[i]]

\* f"{timestamp}_{safe_name}.txt"
LogPath(now, label) == [stamp |-> now, name |-> SafeName(label)]

\* Time passes between two calls.
LogTick ==
    /\ lpc = "idle"
    /\ clock < MaxClock
    /\ clock' = clock + 1
    /\ UNCHANGED <<lpc, logDir, logCalls, lastPath>>

\* One successful _stream_request followed by _save_interaction_log: open(
\* filepath, 'w') creates the file or truncates the one that is there; a
\* failure of the open or of a write is logged and swallowed.
SaveInteractionLog ==
    /\ lpc = "idle"
    /\ logCalls < MaxCalls
    /\ \E label \in TaskLabels, okWrite \in BOOLEAN :
         LET p == LogPath(clock, label)
         IN /\ logCalls' = logCalls + 1
            /\ IF okWrite
               THEN /\ logDir' = {f \in logDir : f.path # p}
                                   \cup {[path |-> p, call |-> logCalls + 1]}
                    /\ lastPath' = p
               ELSE UNCHANGED <<logDir, lastPath>>
    /\ UNCHANGED <<clock, lpc>>

LogStep == LogTick \/ SaveInteractionLog

NoPath == [stamp |-> 0, name |-> <<>>]

LogOff ==
    /\ lpc = "off" /\ clock = 0 /\ logDir = {} /\ logCalls = 0 /\ lastPath = NoPath

\* An ApiClient over an empty api_interactions directory.
LogStart ==
    /\ lpc = "idle" /\ clock = 1 /\ logDir = {} /\ logCalls = 0 /\ lastPath = NoPath

(***************************************************************************)
(* MemoryManager._prune_if_needed, the drop count (src/analyzer.py, lines  *)
(* 268-273).  check_and_optimize calls it with the length of the store     *)
(* when that length is above 2400 (lines 229-231).                         *)
(***************************************************************************)
\* `current_length - 2000`
PruneTarget == 2000

\* Store lengths above the ceiling, and numbers of facts: a few long facts,
\* and many facts of about 30 characters.
PruneLengths == {SoftLimit + 25 * k : k \in 1..MaxGrid}
FactCounts == 1..MaxGrid \cup {75, 150}

\* Python evaluates (current_length - 2000) / (current_length / n) in double
\* precision.  avg_len is the double nearest to L/n, and dividing by it gives
\* the double nearest to that quotient; int() then truncates.  On the grid the
\* result is the exact floor of (L - 2000) * n / L except for the inputs
\* below, where the exact quotient is a whole number q and the double comes
\* out as q - 2^-k: 500 / (2500/75) = 14.999999999999998 and
\* 500 / (2500/150) = 29.999999999999996.
FloatFallsShort == {<<2500, 75>>, <<2500, 150>>}

\* int((current_length - 2000) / avg_len)
IntQuotient(L, n) ==
    LET q == ((L - PruneTarget) * n) \div L
    IN IF <<L, n>> \in FloatFallsShort THEN q - 1 ELSE q

\* The count without the `+ 1`.
DropCountBare(L, n) == IntQuotient(L, n)

\* drop_count = int((current_length - 2000) / avg_len) + 1
DropCount(L, n) == IntQuotient(L, n) + 1

\* Lines 270-271.
ComputeDropCount ==
    /\ kpc = "entered"
    /\ drop' = DropCount(pLen, pCount)
    /\ kpc' = "counted"
    /\ UNCHANGED <<pLen, pCount>>

PruneStep == ComputeDropCount

PruneOff == kpc = "off" /\ pLen = 0 /\ pCount = 0 /\ drop = 0

\* _prune_if_needed(current_length) is entered: the store is above the ceiling
\* and holds at least one fact.
PruneEntered ==
    /\ kpc = "entered"
    /\ pLen \in PruneLengths
    /\ pCount \in FactCounts
    /\ drop = 0

(***************************************************************************)
(* The diary file: the AI section written by append_ai_comment and read    *)
(* back by extract_section_text.  A text is a sequence of characters; "A"  *)
(* stands for the section name "AI 说" (the first of the ai_comment        *)
(* variants and the one append_ai_comment writes), "B" for a later variant *)
(* ("AI说"), "t" for any other visible character.                          *)
(***************************************************************************)

DiaryChars == {"#", " ", "\n", "A", "B", "t"}

\* SectionVariants.ai_comment, in the order find_section_boundary tries them.
AiCommentNames == <<"A", "B">>

\* \s of the patterns, and what str.strip() removes.
IsSpace(c) == c \in {" ", "\n"}

Greatest(S) == CHOOSE x \in S : \A y \in S : y <= x

\* Offsets count characters from 0 as in the code: offset o lies before
\* the character s[o + 1].  ^ and $ under re.MULTILINE.
BeginsLine(s, o) == o = 0 \/ s[o] = "\n"
EndsLine(s, o) == o = Len(s) \/ s[o + 1] = "\n"

\* ^#+\s*name\s*$ matches s from offset o to offset m: hashes up to offset j,
\* white space (newlines included) up to offset k, the name, white space up
\* to m, and m ends a line.
HeadingMatch(s, name, o, m) ==
    /\ BeginsLine(s, o)
    /\ EndsLine(s, m)
    /\ \E j \in (o + 1)..m, k \in (o + 1)..m :
        /\ j <= k /\ k < m
        /\ \A p \in (o + 1)..j : s[p] = "#"
        /\ \A p \in (j + 1)..k : IsSpace(s[p])
        /\ s[k + 1] = name
        /\ \A p \in (k + 2)..m : IsSpace(s[p])

\* re.search: the leftmost offset at which the pattern matches; there the
\* hashes and the first run of white space are forced and the greedy last
\* \s* gives the longest match that still ends a line.
HeadingStarts(s, name) == {o \in 0..Len(s) : \E m \in 0..Len(s) : HeadingMatch(s, name, o, m)}
HeadingEnd(s, name) ==
    LET o == Least(HeadingStarts(s, name))
    IN Greatest({m \in 0..Len(s) : HeadingMatch(s, name, o, m)})

\* re.search(r'^#+\s*', content[start:], re.MULTILINE): the first offset at
\* or after start that begins a line of the slice and carries a hash.
NextHeadings(s, start) ==
    {q \in start..(Len(s) - 1) : (q = start \/ s[q] = "\n") /\ s[q + 1] = "#"}

NoBoundary == [found |-> FALSE, start |-> 0, end |-> 0]

RECURSIVE BoundaryFrom(_, _, _)
BoundaryFrom(s, names, i) ==
    IF i > Len(names) THEN NoBoundary
    ELSE IF HeadingStarts(s, names[i]) = {} THEN BoundaryFrom(s, names, i + 1)
    ELSE LET start == HeadingEnd(s, names[i])
             nxt == NextHeadings(s, start)
         IN [found |-> TRUE, start |-> start,
             end |-> IF nxt = {} THEN Len(s) ELSE Least(nxt)]

find_section_boundary(s, names) == BoundaryFrom(s, names, 1)

RECURSIVE LStripText(_)
LStripText(s) == IF s # <<>> /\ IsSpace(Head(s)) THEN LStripText(Tail(s)) ELSE s

RECURSIVE RStripText(_)
RStripText(s) ==
    IF s # <<>> /\ IsSpace(s[Len(s)]) THEN RStripText(SubSeq(s, 1, Len(s) - 1)) ELSE s

StripText(s) == LStripText(RStripText(s))

\* content[boundary[0]:boundary[1]].strip() if boundary else ""
extract_section_text(s, names) ==
    LET boundary == find_section_boundary(s, names)
    IN IF boundary.found THEN StripText(SubSeq(s, boundary.start + 1, boundary.end))
       ELSE <<>>

\* f"\n\n## AI 说\n\n{comment}\n"
AiSection(comment) == <<"\n", "\n", "#", "#", " ", "A", "\n", "\n">> \o comment \o <<"\n">>

\* A run reads the file (read_diary_file, _parse_diary_content).
ReadDiaryFile ==
    /\ fpc = "file"
    /\ runs < MaxRuns
    /\ ai_comment' = extract_section_text(raw_content, AiCommentNames)
    /\ runs' = runs + 1
    /\ fpc' = "read"
    /\ UNCHANGED <<raw_content, evaluation, appends>>

\* process_daily_evaluations: `if diary.ai_comment: continue`.
SkipCommented ==
    /\ fpc = "read"
    /\ ai_comment # <<>>
    /\ fpc' = "file"
    /\ UNCHANGED <<raw_content, ai_comment, evaluation, appends, runs>>

\* generate_daily_evaluation returns the response text, or nothing; a falsy
\* result is logged and the loop goes on.
GenerateEvaluation ==
    /\ fpc = "read"
    /\ ai_comment = <<>>
    /\ \E ev \in SeqsUpTo(DiaryChars, MaxEval) :
        /\ evaluation' = ev
        /\ fpc' = IF ev = <<>> THEN "file" ELSE "evaluated"
    /\ UNCHANGED <<raw_content, ai_comment, appends, runs>>

\* append_ai_comment succeeds: the section is written at the end of the file
\* and the entry in memory takes the evaluation as its comment.
AppendAiComment ==
    /\ fpc = "evaluated"
    /\ raw_content' = raw_content \o AiSection(evaluation)
    /\ ai_comment' = evaluation
    /\ appends' = appends + 1
    /\ fpc' = "file"
    /\ UNCHANGED <<evaluation, runs>>

\* append_ai_comment fails to open the file: False, nothing written.
AppendFails ==
    /\ fpc = "evaluated"
    /\ fpc' = "file"
    /\ UNCHANGED <<raw_content, ai_comment, evaluation, appends, runs>>

DiaryStep ==
    \/ ReadDiaryFile
    \/ SkipCommented
    \/ GenerateEvaluation
    \/ AppendAiComment
    \/ AppendFails

DiaryOff == fpc = "off" /\ raw_content = <<>> /\ ai_comment = <<>> /\ evaluation = <<>> /\ appends = 0 /\ runs = 0

\* A diary file on disk before the first run.
DiaryOnDisk ==
    /\ fpc = "file"
    /\ raw_content \in SeqsUpTo(DiaryChars, MaxContent)
    /\ ai_comment = <<>> /\ evaluation = <<>> /\ appends = 0 /\ runs = 0

(***************************************************************************)
(* The loop of process_daily_evaluations over self.diaries, one entry per  *)
(* diary: its date (a day number) and whether ai_comment is non-empty.     *)
(* generate_daily_evaluation is taken by its result.                       *)
(***************************************************************************)

\* Day numbers of the diaries; a day that is a multiple of 7 is a Sunday
\* (date.weekday() == 6).
Days == 6..(5 + MaxDays)
IsSunday(d) == d % 7 = 0

Entry == [date : Days, commented : BOOLEAN]

\* list.sort(key=lambda x: x.date): a stable sort, here by insertion.
RECURSIVE InsertByDate(_, _)
InsertByDate(s, x) ==
    IF s = <<>> THEN <<x>>
    ELSE IF s[Len(s)].date <= x.date THEN Append(s, x)
    ELSE Append(InsertByDate(SubSeq(s, 1, Len(s) - 1), x), s[Len(s)])

RECURSIVE SortByDate(_)
SortByDate(s) ==
    IF s = <<>> THEN <<>>
    ELSE InsertByDate(SortByDate(SubSeq(s, 1, Len(s) - 1)), s[Len(s)])

\* What one pass of the loop body did with the entry.
Untouched == "none"

\* `self.diaries.sort(key=lambda x: x.date)` and the start of the loop.
SortDiaries ==
    /\ vpc = "entered"
    /\ book' = SortByDate(book)
    /\ cur' = 1
    /\ vpc' = "loop"
    /\ UNCHANGED <<seen, asks, written, outcome>>

\* `if diary.ai_comment: continue`
VisitCommented ==
    /\ vpc = "loop"
    /\ cur <= Len(book)
    /\ book[cur].commented
    /\ seen' = Append(seen, book[cur].date)
    /\ outcome' = [outcome EXCEPT ![cur] = "continue"]
    /\ cur' = cur + 1
    /\ UNCHANGED <<vpc, book, asks, written>>

\* generate_daily_evaluation is called for the entry.
RequestEvaluation ==
    /\ vpc = "loop"
    /\ cur <= Len(book)
    /\ ~book[cur].commented
    /\ seen' = Append(seen, book[cur].date)
    /\ asks' = [asks EXCEPT ![cur] = @ + 1]
    /\ vpc' = "asked"
    /\ UNCHANGED <<book, cur, written, outcome>>

\* The result is None or '' and the same entry is asked for again.
EvaluationFalsyAgain ==
    /\ vpc = "asked"
    /\ \E r \in {"null", "empty"} : outcome' = [outcome EXCEPT ![cur] = r]
    /\ vpc' = "loop"
    /\ UNCHANGED <<book, cur, seen, asks, written>>

\* The result is None or '': "生成评价失败" is logged, the loop goes on.
EvaluationFalsy ==
    /\ vpc = "asked"
    /\ \E r \in {"null", "empty"} : outcome' = [outcome EXCEPT ![cur] = r]
    /\ cur' = cur + 1
    /\ vpc' = "loop"
    /\ UNCHANGED <<book, seen, asks, written>>

\* generate_daily_evaluation raises (the operator aborts, or an error
\* outside the handlers): the exception leaves the loop.
EvaluationRaises ==
    /\ vpc = "asked"
    /\ outcome' = [outcome EXCEPT ![cur] = "raised"]
    /\ vpc' = "raised"
    /\ UNCHANGED <<book, cur, seen, asks, written>>

\* A text came back and append_ai_comment returned False.
AppendRefused ==
    /\ vpc = "asked"
    /\ outcome' = [outcome EXCEPT ![cur] = "refused"]
    /\ cur' = cur + 1
    /\ vpc' = "loop"
    /\ UNCHANGED <<book, seen, asks, written>>

\* A text came back and was appended: the entry in memory takes it as its
\* comment; on a Sunday generate_weekly_analysis follows, and may raise.
EvaluationAppended ==
    /\ vpc = "asked"
    /\ written' = [written EXCEPT ![cur] = @ + 1]
    /\ book' = [book EXCEPT ![cur].commented = TRUE]
    /\ outcome' = [outcome EXCEPT ![cur] = "appended"]
    /\ \/ cur' = cur + 1 /\ vpc' = "loop"
       \/ IsSunday(book[cur].date) /\ vpc' = "raised" /\ UNCHANGED cur
    /\ UNCHANGED <<seen, asks>>

\* The loop is over: the counts are logged, True is returned.
EvaluationsDone ==
    /\ vpc = "loop"
    /\ cur > Len(book)
    /\ vpc' = "done"
    /\ UNCHANGED <<book, cur, seen, asks, written, outcome>>

DailyStep ==
    \/ SortDiaries
    \/ VisitCommented
    \/ RequestEvaluation
    \/ EvaluationFalsy
    \/ EvaluationRaises
    \/ AppendRefused
    \/ EvaluationAppended
    \/ EvaluationsDone

DailyOff ==
    /\ vpc = "off" /\ book = <<>> /\ cur = 0 /\ seen = <<>>
    /\ asks = <<>> /\ written = <<>> /\ outcome = <<>>

\* process_daily_evaluations is entered: self.diaries is the list
\* get_all_diaries returned, not empty and sorted by date.
DailyEntered ==
    /\ vpc = "entered"
    /\ book \in {s \in SeqsUpTo(Entry, MaxEntries) : s # <<>> /\ SortByDate(s) = s}
    /\ cur = 0 /\ seen = <<>>
    /\ asks = [i \in 1..Len(book) |-> 0]
    /\ written = [i \in 1..Len(book) |-> 0]
    /\ outcome = [i \in 1..Len(book) |-> Untouched]

(***************************************************************************)
(* DiaryAssistant.run from check_and_generate_weekly_summaries on, week by *)
(* week: need_summary holds the complete weeks that have diaries and no    *)
(* summary file; the daily loop is taken by its evaluation requests.       *)
(***************************************************************************)

\* What generate_weekly_summary can hand back that `not summary` rejects:
\* None from a failed request, '', None after the operator chose to skip.
FalsySummaries == {"null", "empty", "skip"}

\* What save_summary leaves of the file: written, or, its exception being
\* swallowed, nothing or a part.
SavedAs == {"written", "partial", "none"}

\* generate_weekly_summary(week) is called for the next week of need_summary.
GenerateSummary ==
    /\ wpc = "summaries"
    /\ wk <= need
    /\ wpc' = "sum_asked"
    /\ UNCHANGED <<need, wk, sumFile, sumOut, evals>>

\* A rejected summary after which the loop takes the next week.
SummaryFalsyNext ==
    /\ wpc = "sum_asked"
    /\ \E r \in FalsySummaries : sumOut' = [sumOut EXCEPT ![wk] = r]
    /\ wk' = wk + 1
    /\ wpc' = "summaries"
    /\ UNCHANGED <<need, sumFile, evals>>

\* `if not summary: ... return False`, and run logs the failure and returns.
SummaryFalsy ==
    /\ wpc = "sum_asked"
    /\ \E r \in FalsySummaries : sumOut' = [sumOut EXCEPT ![wk] = r]
    /\ wpc' = "halted"
    /\ UNCHANGED <<need, wk, sumFile, evals>>

\* The request raises (the operator aborts): run's handlers end the run.
SummaryRaised ==
    /\ wpc = "sum_asked"
    /\ sumOut' = [sumOut EXCEPT ![wk] = "raised"]
    /\ wpc' = "raised"
    /\ UNCHANGED <<need, wk, sumFile, evals>>

\* A text came back: save_summary(week, summary), then the next week.
SaveSummary ==
    /\ wpc = "sum_asked"
    /\ \E f \in SavedAs : sumFile' = [sumFile EXCEPT ![wk] = f]
    /\ sumOut' = [sumOut EXCEPT ![wk] = "text"]
    /\ wk' = wk + 1
    /\ wpc' = "summaries"
    /\ UNCHANGED <<need, evals>>

\* The loop over need_summary is over (or need_summary was empty): True is
\* returned and run enters process_daily_evaluations.
WeeksDone ==
    /\ wpc = "summaries"
    /\ wk > need
    /\ wpc' = "daily"
    /\ UNCHANGED <<need, wk, sumFile, sumOut, evals>>

\* process_daily_evaluations asks for the evaluation of a diary.
DailyRequest ==
    /\ wpc = "daily"
    /\ evals < MaxEvals
    /\ evals' = evals + 1
    /\ UNCHANGED <<wpc, need, wk, sumFile, sumOut>>

\* process_daily_evaluations returns and run logs the end of the program.
DailyFinished ==
    /\ wpc = "daily"
    /\ wpc' = "done"
    /\ UNCHANGED <<need, wk, sumFile, sumOut, evals>>

WeeklyStep ==
    \/ GenerateSummary
    \/ SummaryFalsy
    \/ SummaryRaised
    \/ SaveSummary
    \/ WeeksDone
    \/ DailyRequest
    \/ DailyFinished

WeeklyOff ==
    /\ wpc = "off" /\ need = 0 /\ wk = 0
    /\ sumFile = <<>> /\ sumOut = <<>> /\ evals = 0

\* check_and_generate_weekly_summaries has computed need_summary: none of
\* its weeks has a file (has_summary).
WeeksGrouped ==
    /\ wpc = "summaries"
    /\ need \in 0..MaxNeed
    /\ wk = 1
    /\ sumFile = [i \in 1..need |-> "none"]
    /\ sumOut = [i \in 1..need |-> "none"]
    /\ evals = 0

(***************************************************************************)
(* The two blocking loops without their history counters: `while True` of  *)
(* _send_with_retry and `while True` of check_and_optimize, whose          *)
(* _compress_memory and _prune_if_needed call send_request in turn.  A     *)
(* behaviour may go round either loop for ever.                            *)
(***************************************************************************)

\* send_request has given its caller a text, None, or raised.
CallOver(p) == p \in {"returned", "skipped", "aborted"}

\* send_request is entered on behalf of `who`.
StartCall(who) ==
    /\ npc' = "attempt"
    /\ nAttempt' = 0
    /\ nFor' = who
    /\ retried' = FALSE

\* A generate_* method calls send_request.
GenerateAsks ==
    /\ bpc = "idle" /\ npc = "idle"
    /\ StartCall("generate")
    /\ UNCHANGED <<bpc, bAttempt, bLen, continued>>

\* _stream_request returned: `return content`.
TryReturns ==
    /\ npc = "attempt"
    /\ npc' = "returned"
    /\ UNCHANGED <<bpc, bAttempt, bLen, nAttempt, nFor, retried, continued>>

\* _stream_request raised: the next pass of `for attempt in range(3)`, or,
\* after the third, the prompt.
TryFails ==
    /\ npc = "attempt"
    /\ IF nAttempt + 1 < AttemptsPerRound
       THEN nAttempt' = nAttempt + 1 /\ UNCHANGED npc
       ELSE npc' = "prompt" /\ UNCHANGED nAttempt
    /\ UNCHANGED <<bpc, bAttempt, bLen, nFor, retried, continued>>

\* An answer 's' after which the loop starts again.
AnswerSkipRetries ==
    /\ npc = "prompt"
    /\ npc' = "attempt"
    /\ nAttempt' = 0
    /\ UNCHANGED <<bpc, bAttempt, bLen, nFor, retried, continued>>

\* choice == 's': return None
AnswerSkip ==
    /\ npc = "prompt"
    /\ npc' = "skipped"
    /\ UNCHANGED <<bpc, bAttempt, bLen, nAttempt, nFor, retried, continued>>

\* choice == 'q': raise KeyboardInterrupt
AnswerQuit ==
    /\ npc = "prompt"
    /\ npc' = "aborted"
    /\ UNCHANGED <<bpc, bAttempt, bLen, nAttempt, nFor, retried, continued>>

\* any other answer: `while True` starts the for loop again
AnswerRetry ==
    /\ npc = "prompt"
    /\ npc' = "attempt"
    /\ nAttempt' = 0
    /\ retried' = TRUE
    /\ UNCHANGED <<bpc, bAttempt, bLen, nFor, continued>>

\* The generate_* method has its answer.
GenerateGets ==
    /\ nFor = "generate"
    /\ CallOver(npc)
    /\ npc' = "idle"
    /\ nFor' = "none"
    /\ UNCHANGED <<bpc, bAttempt, bLen, nAttempt, retried, continued>>

\* check_and_optimize is entered: at or below 4000 it returns at once,
\* otherwise the backup is made and the compaction loop starts.
OptimizeEnter ==
    /\ bpc = "idle" /\ npc = "idle"
    /\ \E n \in LenSamples :
         /\ bLen' = n
         /\ bpc' = IF n <= HardLimit THEN "returned" ELSE "compress"
    /\ bAttempt' = 0
    /\ continued' = FALSE
    /\ UNCHANGED <<npc, nAttempt, nFor, retried>>

\* _compress_memory calls send_request.
CompressAsks ==
    /\ bpc = "compress" /\ npc = "idle"
    /\ StartCall("compress")
    /\ UNCHANGED <<bpc, bAttempt, bLen, continued>>

\* The response parsed to a list of at least 1200 characters: update_facts,
\* success, break.
CompressAccepted ==
    /\ bpc = "compress" /\ nFor = "compress"
    /\ npc = "returned"
    /\ \E n \in {m \in LenSamples : m >= MinAccepted} : bLen' = n
    /\ bpc' = "after_loop"
    /\ npc' = "idle" /\ nFor' = "none"
    /\ UNCHANGED <<bAttempt, nAttempt, retried, continued>>

\* Nothing usable came back (None, or a list that is too short): the next
\* pass of `for attempt in range(3)`, or, after the third, the menu.
CompressRejected ==
    /\ bpc = "compress" /\ nFor = "compress"
    /\ npc \in {"returned", "skipped"}
    /\ IF bAttempt + 1 < CompressAttempts
       THEN bAttempt' = bAttempt + 1 /\ UNCHANGED bpc
       ELSE bpc' = "menu" /\ UNCHANGED bAttempt
    /\ npc' = "idle" /\ nFor' = "none"
    /\ UNCHANGED <<bLen, nAttempt, retried, continued>>

\* send_request raised KeyboardInterrupt inside _compress_memory or
\* _prune_if_needed: it leaves check_and_optimize.
CallRaises ==
    /\ nFor \in {"compress", "prune"}
    /\ npc = "aborted"
    /\ bpc' = "raised"
    /\ npc' = "idle" /\ nFor' = "none"
    /\ UNCHANGED <<bAttempt, bLen, nAttempt, retried, continued>>

\* choice == '1': continue
MenuOne ==
    /\ bpc = "menu"
    /\ bpc' = "compress"
    /\ bAttempt' = 0
    /\ continued' = TRUE
    /\ UNCHANGED <<bLen, npc, nAttempt, nFor, retried>>

\* choice == '2': break
MenuTwo ==
    /\ bpc = "menu"
    /\ bpc' = "after_loop"
    /\ UNCHANGED <<bAttempt, bLen, npc, nAttempt, nFor, retried, continued>>

\* choice == '3': _prompt_manual_edit(), return
MenuThree ==
    /\ bpc = "menu"
    /\ bpc' = "edit"
    /\ UNCHANGED <<bAttempt, bLen, npc, nAttempt, nFor, retried, continued>>

\* choice == '4' or anything else: raise KeyboardInterrupt
MenuQuit ==
    /\ bpc = "menu"
    /\ bpc' = "raised"
    /\ UNCHANGED <<bAttempt, bLen, npc, nAttempt, nFor, retried, continued>>

\* `if current_length > 2400: self._prune_if_needed(current_length)`
AfterLoop ==
    /\ bpc = "after_loop"
    /\ bpc' = IF bLen > SoftLimit THEN "prune" ELSE "final"
    /\ UNCHANGED <<bAttempt, bLen, npc, nAttempt, nFor, retried, continued>>

\* _prune_if_needed calls send_request.
PruneAsks ==
    /\ bpc = "prune" /\ npc = "idle"
    /\ StartCall("prune")
    /\ UNCHANGED <<bpc, bAttempt, bLen, continued>>

\* _prune_if_needed has its answer: the store is replaced by an accepted
\* list or left as it is.
PruneGets ==
    /\ bpc = "prune" /\ nFor = "prune"
    /\ npc \in {"returned", "skipped"}
    /\ \E n \in {bLen} \cup {m \in LenSamples : m >= MinAccepted} :
         /\ (n # bLen => npc = "returned")
         /\ bLen' = n
    /\ bpc' = "final"
    /\ npc' = "idle" /\ nFor' = "none"
    /\ UNCHANGED <<bAttempt, nAttempt, retried, continued>>

\* `if self.user_profile.get_profile_length() > 2400: _prompt_manual_edit()`
LastCheck ==
    /\ bpc = "final"
    /\ bpc' = IF bLen > SoftLimit THEN "edit" ELSE "returned"
    /\ UNCHANGED <<bAttempt, bLen, npc, nAttempt, nFor, retried, continued>>

\* _prompt_manual_edit: the operator presses Enter, the file is read again,
\* and check_and_optimize returns.
EditDone ==
    /\ bpc = "edit"
    /\ \E n \in LenSamples : bLen' = n
    /\ bpc' = "returned"
    /\ UNCHANGED <<bAttempt, npc, nAttempt, nFor, retried, continued>>

\* The caller of check_and_optimize goes on.
OptimizeLeaves ==
    /\ bpc \in {"returned", "raised"}
    /\ bpc' = "idle"
    /\ UNCHANGED <<bAttempt, bLen, npc, nAttempt, nFor, retried, continued>>

\* The steps the code takes by itself once an attempt or an answer is in.
LoopsCode ==
    \/ GenerateGets
    \/ CompressAsks
    \/ CompressAccepted
    \/ CompressRejected
    \/ CallRaises
    \/ AfterLoop
    \/ PruneAsks
    \/ PruneGets
    \/ LastCheck

LoopsStep ==
    \/ GenerateAsks
    \/ TryReturns
    \/ TryFails
    \/ AnswerSkip
    \/ AnswerQuit
    \/ AnswerRetry
    \/ OptimizeEnter
    \/ MenuOne
    \/ MenuTwo
    \/ MenuThree
    \/ MenuQuit
    \/ EditDone
    \/ OptimizeLeaves
    \/ LoopsCode

LoopsOff ==
    /\ bpc = "off" /\ bAttempt = 0 /\ bLen = 0
    /\ npc = "off" /\ nAttempt = 0 /\ nFor = "none"
    /\ retried = FALSE /\ continued = FALSE

\* An analyzer with a profile, no call in progress.
LoopsIdle ==
    /\ bpc = "idle" /\ bAttempt = 0 /\ bLen = 0
    /\ npc = "idle" /\ nAttempt = 0 /\ nFor = "none"
    /\ retried = FALSE /\ continued = FALSE

(***************************************************************************)
(* Specifications.                                                         *)
(***************************************************************************)

InitStream ==
    /\ lines \in Streams
    /\ pos = 1 /\ content = Empty /\ reasoning = Empty
    /\ usage_info = "none" /\ spc = "reading"
    /\ SendIdle
    /\ StoreIdle
    /\ RunOff
    /\ PersistOff
    /\ ExtractOff
    /\ TodoOff
    /\ LogOff
    /\ PruneOff
    /\ DiaryOff
    /\ DailyOff
    /\ WeeklyOff
    /\ LoopsOff

NextStream ==
    (StreamLine \/ StreamClose) /\ UNCHANGED <<sendVars, storeVars, runVars, persistVars, extractVars, todoVars, logVars, pruneVars, diaryVars, dailyVars, weeklyVars, loopsVars>>

SpecStream == InitStream /\ [][NextStream]_vars

InitSend == StreamIdle /\ SendIdle /\ StoreIdle /\ RunOff /\ PersistOff /\ ExtractOff /\ TodoOff /\ LogOff /\ PruneOff /\ DiaryOff /\ DailyOff /\ WeeklyOff /\ LoopsOff

NextSend == SendStep /\ UNCHANGED <<streamVars, storeVars, runVars, persistVars, extractVars, todoVars, logVars, pruneVars, diaryVars, dailyVars, weeklyVars, loopsVars>>

SpecSend == InitSend /\ [][NextSend]_vars

InitStore == StreamIdle /\ SendIdle /\ StoreLoaded /\ RunOff /\ PersistOff /\ ExtractOff /\ TodoOff /\ LogOff /\ PruneOff /\ DiaryOff /\ DailyOff /\ WeeklyOff /\ LoopsOff

NextStore == StoreStep /\ UNCHANGED <<streamVars, sendVars, runVars, persistVars, extractVars, todoVars, logVars, pruneVars, diaryVars, dailyVars, weeklyVars, loopsVars>>

SpecStore == InitStore /\ [][NextStore]_vars

InitInstr == StreamIdle /\ SendIdle /\ StoreTraced /\ RunOff /\ PersistOff /\ ExtractOff /\ TodoOff /\ LogOff /\ PruneOff /\ DiaryOff /\ DailyOff /\ WeeklyOff /\ LoopsOff

NextInstr == InstrStep /\ UNCHANGED <<streamVars, sendVars, runVars, persistVars, extractVars, todoVars, logVars, pruneVars, diaryVars, dailyVars, weeklyVars, loopsVars>>

SpecInstr == InitInstr /\ [][NextInstr]_vars

InitRun == StreamIdle /\ SendIdle /\ StoreIdle /\ RunLoaded /\ PersistOff /\ ExtractOff /\ TodoOff /\ LogOff /\ PruneOff /\ DiaryOff /\ DailyOff /\ WeeklyOff /\ LoopsOff

NextRun == RunStep /\ UNCHANGED <<streamVars, storeVars, persistVars, extractVars, todoVars, logVars, pruneVars, diaryVars, dailyVars, weeklyVars, loopsVars>>

SpecRun == InitRun /\ [][NextRun]_vars

InitPersist ==
    StreamIdle /\ SendIdle /\ StoreIdle /\ RunOff /\ PersistStart /\ ExtractOff /\ TodoOff /\ LogOff /\ PruneOff /\ DiaryOff /\ DailyOff /\ WeeklyOff /\ LoopsOff

NextPersist ==
    /\ PersistStep
    /\ UNCHANGED <<streamVars, sendVars, runVars, todoVars, logVars, pruneVars, diaryVars, dailyVars, weeklyVars, loopsVars>>
    /\ UNCHANGED <<file, upc, nItems, changed, item, prev, warned, skipped, begun>>
    /\ UNCHANGED extractVars

SpecPersist == InitPersist /\ [][NextPersist]_vars

InitExtract ==
    StreamIdle /\ SendIdle /\ StoreIdle /\ RunOff /\ PersistOff /\ ExtractCalled /\ TodoOff /\ LogOff /\ PruneOff /\ DiaryOff /\ DailyOff /\ WeeklyOff /\ LoopsOff

NextExtract ==
    ExtractStep /\ UNCHANGED <<streamVars, sendVars, storeVars, runVars, persistVars, todoVars, logVars, pruneVars, diaryVars, dailyVars, weeklyVars, loopsVars>>

SpecExtract == InitExtract /\ [][NextExtract]_vars

InitTodo ==
    /\ StreamIdle /\ SendIdle /\ StoreIdle /\ RunOff /\ PersistOff /\ ExtractOff
    /\ TodoCalled
    /\ LogOff
    /\ PruneOff
    /\ DiaryOff
    /\ DailyOff
    /\ WeeklyOff
    /\ LoopsOff

NextTodo ==
    TodoStep /\ UNCHANGED <<streamVars, sendVars, storeVars, runVars, persistVars, extractVars, logVars, pruneVars, diaryVars, dailyVars, weeklyVars, loopsVars>>

SpecTodo == InitTodo /\ [][NextTodo]_vars

InitLog ==
    /\ StreamIdle /\ SendIdle /\ StoreIdle /\ RunOff /\ PersistOff /\ ExtractOff /\ TodoOff
    /\ LogStart
    /\ PruneOff
    /\ DiaryOff
    /\ DailyOff
    /\ WeeklyOff
    /\ LoopsOff

NextLog ==
    LogStep /\ UNCHANGED <<streamVars, sendVars, storeVars, runVars, persistVars, extractVars, todoVars, pruneVars, diaryVars, dailyVars, weeklyVars, loopsVars>>

SpecLog == InitLog /\ [][NextLog]_vars

InitPrune ==
    /\ StreamIdle /\ SendIdle /\ StoreIdle /\ RunOff /\ PersistOff /\ ExtractOff /\ TodoOff /\ LogOff
    /\ PruneEntered
    /\ DiaryOff
    /\ DailyOff
    /\ WeeklyOff
    /\ LoopsOff

NextPrune ==
    PruneStep /\ UNCHANGED <<streamVars, sendVars, storeVars, runVars, persistVars, extractVars, todoVars, logVars, diaryVars, dailyVars, weeklyVars, loopsVars>>

SpecPrune == InitPrune /\ [][NextPrune]_vars

InitDiary ==
    /\ StreamIdle /\ SendIdle /\ StoreIdle /\ RunOff /\ PersistOff /\ ExtractOff /\ TodoOff /\ LogOff /\ PruneOff
    /\ DiaryOnDisk
    /\ DailyOff
    /\ WeeklyOff
    /\ LoopsOff

NextDiary ==
    DiaryStep /\ UNCHANGED <<streamVars, sendVars, storeVars, runVars, persistVars, extractVars, todoVars, logVars, pruneVars, dailyVars, weeklyVars, loopsVars>>

SpecDiary == InitDiary /\ [][NextDiary]_vars

InitDaily ==
    /\ StreamIdle /\ SendIdle /\ StoreIdle /\ RunOff /\ PersistOff /\ ExtractOff /\ TodoOff /\ LogOff /\ PruneOff /\ DiaryOff
    /\ DailyEntered
    /\ WeeklyOff
    /\ LoopsOff

NextDaily ==
    DailyStep /\ UNCHANGED <<streamVars, sendVars, storeVars, runVars, persistVars, extractVars, todoVars, logVars, pruneVars, diaryVars, weeklyVars, loopsVars>>

SpecDaily == InitDaily /\ [][NextDaily]_vars

InitWeekly ==
    /\ StreamIdle /\ SendIdle /\ StoreIdle /\ RunOff /\ PersistOff /\ ExtractOff /\ TodoOff /\ LogOff /\ PruneOff /\ DiaryOff /\ DailyOff
    /\ WeeksGrouped
    /\ LoopsOff

NextWeekly ==
    WeeklyStep /\ UNCHANGED <<streamVars, sendVars, storeVars, runVars, persistVars, extractVars, todoVars, logVars, pruneVars, diaryVars, dailyVars, loopsVars>>

SpecWeekly == InitWeekly /\ [][NextWeekly]_vars

InitLoops ==
    /\ StreamIdle /\ SendIdle /\ StoreIdle /\ RunOff /\ PersistOff /\ ExtractOff /\ TodoOff /\ LogOff /\ PruneOff /\ DiaryOff /\ DailyOff /\ WeeklyOff
    /\ LoopsIdle

NextLoops ==
    LoopsStep /\ UNCHANGED <<streamVars, sendVars, storeVars, runVars, persistVars, extractVars, todoVars, logVars, pruneVars, diaryVars, dailyVars, weeklyVars>>

SpecLoops == InitLoops /\ [][NextLoops]_vars

\* Scheduling of the loops: an attempt ends (requests.post has a timeout),
\* the operator answers a prompt that is shown, and the code between them
\* runs on.  No call has to be made, and no answer has to be a given one.
\* Only the variables of the loops change in these behaviours.
LoopsFair ==
    /\ WF_loopsVars(TryReturns \/ TryFails)
    /\ WF_loopsVars(AnswerSkip \/ AnswerQuit \/ AnswerRetry)
    /\ WF_loopsVars(MenuOne \/ MenuTwo \/ MenuThree \/ MenuQuit \/ EditDone)
    /\ WF_loopsVars(LoopsCode)

SpecLoopsLive == InitLoops /\ [][NextLoops]_vars /\ LoopsFair

(***************************************************************************)
(*                              CLAIMS                                     *)
(***************************************************************************)

\* C1 -- Retry exhaustion: within one round the escalation prompt is shown
\* exactly once, and only after exactly 3 consecutive failed attempts of that
\* round: never after fewer than 3 failures, never after a successful attempt.
C1_RetryExhaustion ==
    /\ shown <= 1
    /\ (shown = 1 <=> fails = 3)
    /\ (tpc = "prompt" => shown = 1 /\ lastAttempt = "fail")
    /\ (fails < 3 => tpc \notin {"prompt", "skipped", "aborted"})
    /\ (lastAttempt = "ok" => shown = 0 /\ tpc = "returned")

\* C1 witness: the first round is exhausted and the prompt is up.
C1_Witness == tpc = "prompt" /\ rounds = 1 /\ fails = 3 /\ http = 3 /\ shown = 1

\* C2 -- A send_request call ends in exactly one of three ways: it returns
\* the text of a successful attempt, it returns null, or it raises the
\* user-termination signal; null only after the operator answered skip at an
\* escalation prompt, the signal only after the operator answered abort there.
C2_ThreeOutcomes ==
    /\ ret.kind \in {"none", "text", "null", "raise"}
    /\ (ret.kind = "none" <=> tpc \in {"idle", "attempt", "prompt"})
    /\ (ret.kind = "text" => tpc = "returned" /\ lastAttempt = "ok" /\ ret.text = lastGot)
    /\ (ret.kind = "null" => tpc = "skipped" /\ shown = 1 /\ Lower(answer) = "s")
    /\ (ret.kind = "raise" => tpc = "aborted" /\ shown = 1 /\ Lower(answer) = "q")

\* C2 witness: the operator typed an upper-case S and the call returned null.
C2_Witness == tpc = "skipped" /\ ret.kind = "null" /\ answer = "S"

\* C3 -- A retry answer starts a fresh round with the attempt counter reset,
\* so every escalation follows exactly 3 further failed attempts: the HTTP
\* attempts of a call are 3 times the exhausted rounds plus the attempts of
\* the round in progress.
C3_FreshRound ==
    /\ (tpc = "attempt" => attempt = fails)
    /\ http = 3 * rounds
              + (IF tpc \in {"attempt", "returned"} THEN fails ELSE 0)
              + (IF tpc = "returned" THEN 1 ELSE 0)
    /\ (tpc = "prompt" => http = 3 * rounds)

\* C3 witness: after one exhausted round and a retry, the second attempt of
\* the second round succeeded: 3 + 2 attempts.
C3_Witness == tpc = "returned" /\ rounds = 1 /\ fails = 1 /\ http = 5

\* C4 (as claimed) -- every attempt that produced content, successful or
\* failed, has an interaction log saved for it.
C4_EveryAttemptLogged ==
    (lastAttempt # "none" /\ lastGot # Empty) => lastLog.st # "none"

\* C4 (amended) -- exactly the attempts that ended in success reach the log
\* save, with the text the call returns; the file is written unless the write
\* itself fails; a failed attempt saves nothing, whatever it had received.
C4_SuccessLogged ==
    /\ (lastAttempt = "ok" =>
            /\ lastLog.st \in {"written", "writefail"}
            /\ lastLog.text = lastGot
            /\ ret = [kind |-> "text", text |-> lastLog.text])
    /\ (lastAttempt = "fail" => lastLog = NoLog)
    /\ (lastAttempt = "none" => lastLog = NoLog)

\* C4 witness: a stream broke after a fragment was received, and no log exists.
C4_Witness == lastAttempt = "fail" /\ lastGot = <<"a">> /\ lastLog.st = "none"

\* A stream with its unparsable chunks deleted.
WithoutMalformed(ls) == SelectSeq(ls, LAMBDA l : l.k # "badjson")

\* C5 -- Stream robustness: what _stream_request ends with on a stream is what
\* it ends with on that stream with every malformed-JSON chunk deleted: the
\* same outcome and, when it returns, the same text, reasoning and usage.
C5_StreamRobustness ==
    spc \in {"returned", "raised"} =>
        LET clean == RunStream(WithoutMalformed(lines))
        IN /\ spc = clean.st
           /\ spc = "returned" =>
                /\ content = clean.content
                /\ reasoning = clean.reasoning
                /\ usage_info = clean.usage

\* C5 witness: a malformed chunk between two valid ones, both accumulated.
C5_Witness ==
    /\ spc = "returned" /\ Len(lines) = 3
    /\ lines[1].k = "chunk" /\ lines[2].k = "badjson" /\ lines[3].k = "chunk"
    /\ content = <<"a", "b">>

\* The lines before the first '[DONE]' (all of them when none arrives).
RECURSIVE BeforeDone(_)
BeforeDone(ls) ==
    IF ls = <<>> \/ Head(ls).k = "done" THEN <<>>
    ELSE <<Head(ls)>> \o BeforeDone(Tail(ls))

\* The content fragment a line carries: choices[0].delta.content when it is a
\* string, the empty string otherwise.
Fragment(l) ==
    IF l.k = "chunk" /\ l.choices = "one" /\ l.delta = "obj" /\ l.c = "str"
    THEN l.cs ELSE Empty

RECURSIVE Concat(_)
Concat(ss) == IF ss = <<>> THEN <<>> ELSE Head(ss) \o Concat(Tail(ss))

\* C6 -- The text of a successful streaming attempt is the concatenation, in
\* arrival order, of the content fragments of the chunks received before the
\* first '[DONE]' (or before the connection closed); later chunks add nothing,
\* and a chunk without content (absent or null) adds the empty string.
C6_ContentIsConcat ==
    spc = "returned" =>
        content = Concat([i \in 1..Len(BeforeDone(lines)) |-> Fragment(BeforeDone(lines)[i])])

\* C6 witness: a chunk, '[DONE]', then a chunk that is ignored.
C6_Witness ==
    /\ spc = "returned" /\ Len(lines) = 3
    /\ lines[1].k = "chunk" /\ lines[1].cs = <<"b">>
    /\ lines[2].k = "done"
    /\ lines[3].k = "chunk" /\ lines[3].cs = <<"a">>
    /\ content = <<"b">>

\* How many stored facts equal t.
Count(fs, t) == Cardinality({i \in 1..Len(fs) : fs[i] = t})

\* C8 -- Idempotent add: once an add of a fact has been processed, the store
\* holds exactly one copy of that fact, and an add of a fact the store already
\* holds (the second of two adds) leaves the store as it was.
C8_IdempotentAdd ==
    item.op = "add" =>
        /\ Count(facts, item.new.s) = 1
        /\ (InFacts(prev, item.new.s) => facts = prev)

\* A store without duplicates and without an empty fact.
WellFormed(fs) ==
    /\ \A i, j \in 1..Len(fs) : fs[i] = fs[j] => i = j
    /\ \A i \in 1..Len(fs) : fs[i] # Empty

\* C9 -- Store invariant: no two stored facts are equal as text and no stored
\* fact is the empty string, in every reachable state of the store; stated for
\* the steps of update(): an add, remove or update item applied to a store
\* that satisfies the invariant leaves a store that satisfies it.
C9_StoreInvariant ==
    (item.op \in {"add", "remove", "update"} /\ WellFormed(prev)) => WellFormed(facts)

C7_AbortUnwinds ==
    aborted =>
        /\ late = {}
        /\ rpc \in CallSites \cup {"unwind_extract", "unwind_run", "interrupted"}
        /\ rpc \in CallSites => tpc = "aborted"
        /\ rpc \in {"unwind_extract", "unwind_run"} => exc = "KeyboardInterrupt"

\* The abort came from inside the compaction that a daily evaluation
\* started (so it passed line 175), and a diary is still without comment.
C7_Witness ==
    /\ rpc = "interrupted"
    /\ aborted
    /\ curLen > HardLimit
    /\ pipe = "eval"
    /\ \E i \in 1..Len(diaries) : ~diaries[i].commented

\* The fragment equals no stored fact and is contained in none, or in several.
Ambiguous(fs, s) == ~InFacts(fs, s) /\ Cardinality(Candidates(fs, s)) # 1

\* C11 as stated -- Ambiguity safety: whenever the fragment of a remove or
\* update item equals no stored fact and is contained in zero or in several
\* stored facts, the item changes nothing and a warning is logged.
C11_AmbiguityAsStated ==
    (item.op \in {"remove", "update"} /\ item.old.has /\ Ambiguous(prev, item.old.s)) =>
        (facts = prev /\ warned)

\* C11 -- Ambiguity safety: an item whose fragment equals no stored fact and
\* is contained in zero or in several stored facts never changes the store;
\* the warning is logged when the fragment is not empty and, for an update,
\* the item carries a 'new' (lines 59-60 and 81-82 skip the others silently).
C11_AmbiguitySafety ==
    (item.op \in {"remove", "update"} /\ item.old.has /\ Ambiguous(prev, item.old.s)) =>
        /\ facts = prev
        /\ warned <=> (item.old.s # Empty /\ (item.op = "update" => item.new.has))

\* C11 witness: "a" is contained in both "ab" and "ba"; the remove item left
\* both and warned.
C11_Witness ==
    /\ item.op = "remove"
    /\ item.old = Some(<<"a">>)
    /\ prev = << <<"a", "b">>, <<"b", "a">> >>
    /\ facts = prev
    /\ warned

\* fs without the fact at position i, the others in their order.
Without(fs, i, gs) ==
    /\ Len(gs) = Len(fs) - 1
    /\ \A j \in 1..Len(gs) : gs[j] = IF j < i THEN fs[j] ELSE fs[j + 1]

\* The fragment equals no stored fact and is contained in exactly one.
UniqueIn(fs, s) == ~InFacts(fs, s) /\ Cardinality(Candidates(fs, s)) = 1

\* C12 as stated -- Unique-substring removal: whenever a remove fragment
\* equals no stored fact and is a substring of exactly one stored fact, that
\* fact is removed and the others stay in their order.
C12_UniqueRemovalAsStated ==
    (item.op = "remove" /\ item.old.has /\ UniqueIn(prev, item.old.s)) =>
        \E i \in 1..Len(prev) : IsSubstr(item.old.s, prev[i]) /\ Without(prev, i, facts)

\* C12 -- Unique-substring removal: a non-empty remove fragment that equals
\* no stored fact and is a substring of exactly one stored fact removes that
\* fact and leaves the others in their order; an empty fragment removes
\* nothing.
C12_UniqueRemoval ==
    (item.op = "remove" /\ item.old.has /\ UniqueIn(prev, item.old.s)) =>
        IF item.old.s = Empty
        THEN facts = prev
        ELSE \E i \in 1..Len(prev) :
                IsSubstr(item.old.s, prev[i]) /\ Without(prev, i, facts)

\* C12 witness: of "aa" and "ab" only the second contains "b"; it was removed.
C12_Witness ==
    /\ item.op = "remove"
    /\ item.old = Some(<<"b">>)
    /\ prev = << <<"a", "a">>, <<"a", "b">> >>
    /\ facts = << <<"a", "a">> >>

\* The update item is one the code matches fuzzily: 'old' is a non-empty
\* text, 'new' is given, 'old' equals no fact and is contained in exactly one.
FuzzyUpdate ==
    /\ item.op = "update"
    /\ item.old.has /\ item.old.s # Empty /\ item.new.has
    /\ UniqueIn(prev, item.old.s)

\* s with one occurrence of old replaced by new, the text before and after
\* that occurrence kept.
OneReplaced(s, old, new) ==
    {SubSeq(s, 1, i - 1) \o new \o SubSeq(s, i + Len(old), Len(s)) :
        i \in {k \in 1..(Len(s) - Len(old) + 1) : SubSeq(s, k, k + Len(old) - 1) = old}}

\* The leftmost occurrence of old in s.
FirstAt(s, old) ==
    CHOOSE i \in 1..(Len(s) - Len(old) + 1) :
        /\ SubSeq(s, i, i + Len(old) - 1) = old
        /\ \A j \in 1..(i - 1) : SubSeq(s, j, j + Len(old) - 1) # old

\* s with every occurrence of old, taken from the left without overlap,
\* replaced by new.
RECURSIVE EveryReplaced(_, _, _)
EveryReplaced(s, old, new) ==
    IF ~IsSubstr(old, s) THEN s
    ELSE LET i == FirstAt(s, old)
         IN SubSeq(s, 1, i - 1) \o new
                \o EveryReplaced(SubSeq(s, i + Len(old), Len(s)), old, new)

\* C13 as stated -- on a fuzzy update match the matched occurrence alone is
\* replaced by the new text: the text of the fact before and after that
\* occurrence is kept, the fact keeps its position, the other facts stay.
C13_OnlyMatchedAsStated ==
    FuzzyUpdate =>
        \E i \in 1..Len(prev) :
            \E t \in OneReplaced(prev[i], item.old.s, item.new.s) :
                facts = [prev EXCEPT ![i] = t]

\* C13 -- on a fuzzy update match every occurrence of the fragment inside the
\* one fact that contains it is replaced by the new text; the text outside the
\* occurrences is kept, the fact keeps its position, the other facts stay.
C13_EveryOccurrence ==
    FuzzyUpdate =>
        \E i \in 1..Len(prev) :
            /\ IsSubstr(item.old.s, prev[i])
            /\ facts = [prev EXCEPT ![i] = EveryReplaced(prev[i], item.old.s, item.new.s)]

\* C13 witness: "ab" is the one fact containing "b"; updating "b" to "a" gave
\* "aa", not "a".
C13_Witness ==
    /\ FuzzyUpdate
    /\ item.old = Some(<<"b">>) /\ item.new = Some(<<"a">>)
    /\ prev = << <<"a", "b">> >>
    /\ facts = << <<"a", "a">> >>

\* C14 -- within one update instruction the items are processed in the order
\* add, remove, update: while the add list is being processed no remove or
\* update item of this instruction has been processed, and while the remove
\* list is being processed no update item has.  (The lists are fetched by key,
\* lines 52, 58 and 77, so the order of the keys plays no part.)
C14_AddRemoveUpdate ==
    /\ upc = "add" => item.op \in {"none", "add"}
    /\ upc = "remove" => item.op \in {"none", "add", "remove"}
    /\ upc = "update" => item.op \in {"none", "add", "remove", "update"}

\* C14 witness: the update list is being processed, its last item has just
\* been applied after the add and remove lists were gone through.
C14_Witness ==
    /\ upc = "update"
    /\ item.op = "update"
    /\ nItems = MaxItems
    /\ changed

\* C15 -- Write-through persistence: when update() ends, normally or with an
\* exception, after at least one add, remove or update was counted, and when
\* update_facts ends, the file holds the list that is in memory.
C15_WriteThrough ==
    [][((upc # "idle" /\ upc' = "idle" /\ changed)
          \/ (upc = "idle" /\ item'.op = "replace_all"))
        => file' = "synced"]_vars

\* C16 -- a remove or update item that is skipped with a warning leaves the
\* store, the counts and the position in the instruction as they were, so the
\* items before it stay applied and the items after it are processed as if it
\* had not been there.
C16_SiblingsApply ==
    [][(upc \in {"remove", "update"} /\ nItems' = nItems + 1 /\ warned')
        => (upc' = upc /\ facts' = facts /\ changed' = changed /\ file' = file)]_vars

\* C16 witness: an item of this instruction was skipped with a warning, an
\* item before it had been applied, and the item after it has been applied.
C16_Witness ==
    /\ skipped /\ ~warned
    /\ item.op = "update"
    /\ facts # prev
    /\ nItems = MaxItems
    /\ changed

\* C17 -- Round-trip persistence: after the store saved a list of string
\* facts (the file system refusing nothing) and a fresh UserProfile was
\* constructed on the same file, the fresh store holds the same facts in the
\* same order.
C17_RoundTrip ==
    (ppc = "reloaded" /\ io = "ok") => fresh = facts

\* C18 -- Loading never fails: the constructor never lets an error out, and a
\* missing file, an unreadable file, a file cut off in the middle of its JSON
\* and a file whose JSON is a string, not a list, each give the empty store.
C18_LoadNeverFails ==
    /\ ppc # "crashed"
    /\ (ppc = "loaded" /\ (disk.st \in {"missing", "unreadable"} \/ disk.made \in {"cut", "string"}))
          => facts = <<>>

\* C18 witness: the file ends in the middle of a string literal; the store
\* was constructed empty.
C18_Witness ==
    /\ ppc = "loaded"
    /\ disk.made = "cut"
    /\ Len(disk.text) >= 6
    /\ facts = <<>>

\* C19 -- Idle state: when check_and_optimize is entered with a store of at
\* most 4000 characters it returns at once: no backup is written, no request
\* is sent, no menu or manual-edit prompt is reached, and the store is as it
\* was.
C19_IdleNoAction ==
    [][(rpc = "optimize" /\ profLen <= HardLimit)
          => /\ rpc' = "strip"
             /\ backup' = backup /\ backup.st = "none"
             /\ profLen' = profLen
             /\ file' = file
             /\ UNCHANGED sendVars]_vars

\* C19 witness: check_and_optimize has returned on a store of exactly 4000
\* characters, with no snapshot written.
C19_Witness ==
    /\ rpc = "strip"
    /\ resp = "block"
    /\ profLen = HardLimit
    /\ backup.st = "none"

\* C20 -- Backup precedes compaction: while a compaction or pruning request
\* is out, a snapshot has been written in this invocation of
\* check_and_optimize, and at the first compaction it holds the store as it
\* is.
C20_BackupPrecedes ==
    /\ rpc = "cmp_call" => backup = [st |-> "written", len |-> profLen]
    /\ rpc = "prune_call" => backup.st = "written"

\* C21 -- Compaction floor: a compaction round, and the pruning call, whose
\* returned list is absent, empty, unparsable or shorter in total than 1200
\* characters is rejected: the store keeps its length, save_profile is not
\* called, and after a rejected compaction round the loop goes on to the next
\* round or to the menu.
C21_CompactionFloor ==
    [][((rpc \in {"cmp_call", "prune_call"} /\ rpc' # rpc /\ tpc \in {"returned", "skipped"})
          /\ (newFacts' = <<>> \/ newFacts'[1] < MinAccepted))
          => /\ profLen' = profLen
             /\ ~wrote'
             /\ rpc = "cmp_call" => rpc' \in {"compress", "menu"}]_vars

\* C21 witness: a round that returned a list of 1199 characters was rejected
\* and the attempt counter moved on.
C21_Witness ==
    /\ rpc = "compress"
    /\ newFacts = <<MinAccepted - 1>>
    /\ cAttempt = 1
    /\ profLen > HardLimit

\* C22 -- Compaction attempt budget: between two operator answers at most 3
\* compaction requests are sent; an accepted result ends the rounds; the menu
\* is reached after exactly 3 rejected rounds; and from the menu a new batch,
\* counted from zero, starts only on the answer "1".
C22_AttemptBudget ==
    [][/\ calls' <= 3
       /\ calls' > calls => (rpc = "compress" /\ rpc' = "cmp_call")
       /\ (rpc # "menu" /\ rpc' = "menu") => (calls' = 3 /\ ~Accepted(newFacts'))
       /\ (rpc = "cmp_call" /\ rpc' # rpc /\ tpc \in {"returned", "skipped"} /\ Accepted(newFacts'))
             => rpc' = "after_loop"
       /\ (rpc = "menu" /\ rpc' = "compress")
             => (calls' = 0 /\ menuRounds' = menuRounds + 1)]_vars

\* C22 witness: the operator answered "1" once, and the second batch of three
\* rounds was rejected as well.
C22_Witness ==
    /\ rpc = "menu"
    /\ calls = 3
    /\ menuRounds = 1

\* C23 -- Pruning step: when the compaction loop is left (an accepted result,
\* or the answer "2"), a pruning request is sent if and only if the store is
\* above 2400 characters; at 2400 or below none is sent; and one invocation
\* of check_and_optimize sends at most one pruning request.
C23_PruningStep ==
    [][/\ prunes' <= 1
       /\ prunes' > prunes => (rpc = "after_loop" /\ rpc' = "prune_call")
       /\ (rpc = "after_loop" /\ rpc' # rpc)
             => IF profLen > SoftLimit
                THEN rpc' = "prune_call" /\ prunes' = 1
                ELSE rpc' = "final" /\ prunes' = 0 /\ UNCHANGED sendVars]_vars

\* C23 witness: the compaction left exactly 2400 characters, and the final
\* check was reached with no pruning request sent.
C23_Witness ==
    /\ rpc = "final"
    /\ profLen = SoftLimit
    /\ prunes = 0
    /\ newFacts = <<SoftLimit>>

\* C24 -- No silent oversize: when extract_and_apply_updates has left the
\* store above 4000 characters and the run goes on, the store is at most 2400
\* characters long or the manual-edit prompt was shown in that call.
C24_NoSilentOversize ==
    (rpc \in {"eval_done", "ana_done"} /\ over) => (profLen <= SoftLimit \/ prompted)

\* The file holds a JSON list.
HoldsList(d) ==
    d.st = "file" /\ JsonLoad(d.text).ok /\ JsonLoad(d.text).kind = "list"

C26_SummaryLeavesMemory ==
    [][rpc = "sum_call"
          => /\ profLen' = profLen
             /\ ~wrote' /\ backup' = backup /\ prompted' = prompted /\ over' = over
             /\ rpc' \in {"sum_call", "summaries", "halted", "unwind_run"}
             /\ ~(tpc \in {"idle", "returned", "skipped"} /\ tpc' = "attempt")
             /\ rpc' = "summaries" => resp' \in Shapes]_vars

\* C26 witness: a summary holding a fenced memory-update block was returned
\* and saved; the store was not written and no backup was made.
C26_Witness ==
    /\ rpc = "summaries"
    /\ resp = "block"
    /\ weeksLeft = 0
    /\ ~wrote
    /\ backup = NoBackup

\* C30 as stated -- what generate_weekly_analysis writes to the analysis file
\* is never the response as it came with its memory-update block in it.
C30_NeverRawAsStated ==
    anaOut # "raw"

\* C30 -- Period-end deep analysis persists what the pipeline returned:
\* save_analysis_result is called only after _process_memory_updates has
\* returned, with the text it returned, and only when that text is not
\* empty; that text is the response with its block stripped, or the response
\* as it came when it had no block or when processing the block raised an
\* error that line 175 caught; on a null response the store is untouched,
\* no file is written and null is returned.
C30_AnalysisPersists ==
    [][/\ anaOut' # anaOut => (rpc = "ana_done" /\ Narrative(resp) /\ anaOut' = resp)
       /\ (rpc = "ana_done" /\ rpc' # rpc)
             => anaOut' = IF Narrative(resp) THEN resp ELSE anaOut
       /\ (resp' = "stripped" /\ resp # "stripped") => rpc = "strip"
       /\ (resp' = "raw" /\ resp # "raw") => (rpc = "unwind_extract" /\ exc = "Exception")
       /\ (rpc = "ana_call" /\ rpc' # rpc /\ tpc \in {"returned", "skipped"} /\ Falsy(ret))
             => /\ rpc' = "ana_done" /\ resp' = "none"
                /\ profLen' = profLen /\ ~wrote'
                /\ anaOut' = anaOut]_vars

\* C30 witness: the run ended after an analysis whose block was stripped had
\* been handed to save_analysis_result.
C30_Witness ==
    /\ rpc = "done"
    /\ anaOut = "stripped"

\* The located block of a finished call, and whether json.loads took it.
LocatedBlock == Group0(xin, found)
LocatedJson == Group1(xin, found)
Finished == xpc \in {"returned", "raised"}

\* t without the white space at its two ends.
Trimmed(t) ==
    LET inner == {i \in 1..Len(t) : t[i] # "w"}
    IN IF inner = {} THEN <<>>
       ELSE SubSeq(t, CHOOSE i \in inner : \A j \in inner : i <= j,
                      CHOOSE i \in inner : \A j \in inner : j <= i)

\* C27 as stated -- when the response holds a parsable fenced JSON block with
\* the memory-update marker, the instruction is applied once and the returned
\* narrative is the response with the located block cut out at its place, every
\* other piece, a second copy of the block included, kept.
C27_RemovedOnceAsStated ==
    (xpc = "returned" /\ found.found /\ JsonObject(LocatedJson) /\ HasKey(LocatedJson)) =>
        /\ applied = 1
        /\ xout = SubSeq(xin, 1, found.s - 1) \o SubSeq(xin, found.e + 1, Len(xin))

\* C27 -- Memory-update extraction: when the located block parses, its
\* instruction is handed to the store once if the object has the
\* memory-update key and never otherwise; and when processing raised nothing,
\* the returned narrative is the response with every occurrence of the located
\* block's text (fence included) removed and the white space at both ends of
\* the result trimmed.
C27_BlockStripped ==
    (Finished /\ found.found /\ JsonObject(LocatedJson)) =>
        /\ applied = (IF HasKey(LocatedJson) THEN 1 ELSE 0)
        /\ (xpc = "returned" /\ ~logged) =>
               xout = Trimmed(EveryReplaced(xin, LocatedBlock, <<>>))

C27_Witness ==
    /\ xpc = "returned" /\ ~logged /\ applied = 1
    /\ xin = <<"f", "j", "w", "{", "m", "}", "w", "f">> \o <<"a">>
               \o <<"f", "j", "w", "{", "m", "}", "w", "f">>
    /\ xout = <<"a">>

\* C28 -- Lenient extraction: extract_and_apply_updates never raises an error
\* (what leaves it is the operator's stop signal alone); when json.loads
\* rejects the located block it logs and returns the content as it came, the
\* store untouched; when no block is located it returns the content as it
\* came, without a log line and with the store untouched.
C28_Lenient ==
    /\ xpc = "raised" => xexc = "KeyboardInterrupt"
    /\ (xpc = "returned" /\ found.found /\ ~JsonObject(LocatedJson)) =>
           logged /\ xout = xin /\ applied = 0 /\ ~memCh /\ ~fileCh
    /\ (xpc = "returned" /\ ~found.found) =>
           ~logged /\ xout = xin /\ applied = 0 /\ ~memCh /\ ~fileCh

C28_Witness ==
    /\ xpc = "returned" /\ logged /\ xout = xin
    /\ found.found /\ ~JsonObject(LocatedJson)
    /\ xin = <<"a">> \o <<"f", "j", "w", "{", "m", "a", "}", "f">>

\* C29 -- Failed memory-update content is treated as absent: when the call
\* returns the narrative unmodified because processing the block failed, the
\* store is what it was before the call, in memory and on file; and when any
\* part of an instruction reached the store, the returned narrative has the
\* block stripped.
C29_FailedIsAbsent ==
    (xpc = "returned" /\ found.found) =>
        /\ logged => (~memCh /\ ~fileCh)
        /\ memCh => (~logged /\ ~IsSubstr(LocatedBlock, xout))

\* The checkbox of a todo line ends at its first "]"; the line is completed
\* when an "x" stands in the checkbox; its content is what follows.
BoxClose(l) ==
    IF l # <<>> /\ l[1] = "[" /\ (\E k \in 1..Len(l) : l[k] = "]")
    THEN CHOOSE k \in 1..Len(l) : l[k] = "]" /\ \A j \in 1..(k - 1) : l[j] # "]"
    ELSE 0

MarkedDone(l) == \E j \in 1..BoxClose(l) : l[j] = "x"
HasContent(l) == \E j \in (BoxClose(l) + 1)..Len(l) : l[j] # "w"

\* The completion dates of a line: the date-shaped texts that follow a
\* completion mark, white space apart; the line's completion date is the
\* first of them.
DatedAt(l) ==
    {j \in 2..Len(l) :
        /\ l[j] \in DateShaped
        /\ \E i \in 1..(j - 1) :
              l[i] = "c" /\ \A k \in (i + 1)..(j - 1) : l[k] = "w"}

RecentlyDone(l, now) ==
    \E j \in DatedAt(l) :
        /\ \A k \in DatedAt(l) : j <= k
        /\ l[j] \in DOMAIN DayNumber
        /\ now - DayNumber[l[j]] <= 7

Included == valid = <<todo>>

\* C31 -- Open-items aging: a line with no content after its checkbox is
\* dropped; an uncompleted line with content is kept whatever dates it carries;
\* a completed line is kept if and only if it carries a parseable completion
\* date at most 7 days before today (7 days kept, 8 and more dropped), so a
\* completed line without a parseable date is dropped; and the digest returned
\* holds the line exactly when it was kept.
C31_OpenItemsAging ==
    dpc \in {"emit", "built", "returned"} =>
        /\ ~HasContent(todo) => ~Included
        /\ (HasContent(todo) /\ ~MarkedDone(todo)) => Included
        /\ (HasContent(todo) /\ MarkedDone(todo)) =>
               (Included <=> RecentlyDone(todo, today))
        /\ dpc = "returned" =>
               (Included <=> \E i \in 1..Len(digest) : digest[i] = todo)

\* C31 witness: a line completed exactly 7 days before today is in the digest.
C31_Witness ==
    /\ dpc = "returned"
    /\ today = 31
    /\ todo = <<"[", "x", "]", "t", "c", "2026-01-24">>
    /\ \E i \in 1..Len(digest) : digest[i] = todo

\* C32 -- Interaction-log uniqueness: every logged call writes a file of its
\* own; no call writes to the file name of an earlier call, so every record
\* written stays in the directory, two calls with the same task label in quick
\* succession included.
C32_OwnLogFile == [][\A f \in logDir : f \in logDir']_vars

\* floor(excess / average) in exact arithmetic: excess = L - 2000 and
\* average = L / n, so the quotient is (L - 2000) * n / L.
ExactFloor(L, n) ==
    CHOOSE q \in 0..n : q * L <= (L - 2000) * n /\ (L - 2000) * n < (q + 1) * L

\* C33 as stated -- the requested drop count equals
\* floor(excess / average_fact_length) + 1 and lies between 1 and n.
C33_DropCountAsStated ==
    kpc = "counted" =>
        /\ drop = ExactFloor(pLen, pCount) + 1
        /\ 1 <= drop /\ drop <= pCount

\* C33 -- Pruning drop count: the requested number of facts to drop lies
\* between 1 and n; it is floor(excess / average_fact_length) + 1 whenever
\* excess / average is not a whole number, and that value or one less when it
\* is (the quotient is computed in floating point and truncated).
C33_DropCount ==
    kpc = "counted" =>
        /\ 1 <= drop /\ drop <= pCount
        /\ drop \in {ExactFloor(pLen, pCount), ExactFloor(pLen, pCount) + 1}
        /\ ((pLen - 2000) * pCount) % pLen # 0 => drop = ExactFloor(pLen, pCount) + 1

\* C33 witness: 2500 characters in 75 facts; the exact count is 16, the count
\* requested is 15.
C33_Witness == kpc = "counted" /\ pLen = 2500 /\ pCount = 75 /\ drop = 15

\* The run is inside check_and_optimize.
InCompactor ==
    rpc \in {"optimize", "compress", "cmp_call", "menu", "after_loop", "prune_call", "final"}

BlankItem ==
    \/ item.op = "remove" /\ (~item.old.has \/ Len(item.old.s) = 0)
    \/ item.op = "update" /\ (~item.old.has \/ Len(item.old.s) = 0 \/ ~item.new.has)

\* C35 -- An empty remove fragment, an empty or missing update 'old', and an
\* update with a missing 'new' never change the store and log no warning: the
\* empty string, a substring of every fact, removes or rewrites nothing, the
\* only fact of a one-fact store included.
C35_BlankItemSkipped == BlankItem => (facts = prev /\ ~warned)

\* C35 witness: a remove item with the empty string on a store of one fact;
\* the fact is still there.
C35_Witness ==
    /\ item.op = "remove" /\ item.old = Some(Empty)
    /\ Len(prev) = 1 /\ prev[1] # Empty
    /\ facts = prev

\* C36 -- Target resolution is evaluated against the store as it stands when
\* the item is processed: a remove or update item that is not skipped as blank
\* warns exactly when its fragment equals no fact of the current store and is
\* contained in none or in several of them, and then changes nothing; a
\* remove item that resolves takes one fact of the current store that equals
\* or contains the fragment; and a fact added by the same instruction and
\* removed by a later item is absent afterwards.
C36_ResolvedAgainstCurrent ==
    (item.op \in {"remove", "update"} /\ ~BlankItem) =>
        /\ warned <=> Ambiguous(prev, item.old.s)
        /\ warned => facts = prev
        /\ (item.op = "remove" /\ ~warned) =>
               \E i \in 1..Len(prev) :
                   /\ prev[i] = item.old.s \/ IsSubstr(item.old.s, prev[i])
                   /\ Without(prev, i, facts)
        /\ (item.op = "remove" /\ InFacts(prev, item.old.s) /\ begun.on /\ ~InFacts(begun.fs, item.old.s)) =>
               ~InFacts(facts, item.old.s)

\* C36 witness: when update() was entered "a" was contained in both "ab" and
\* "aa"; an earlier item of the instruction removed "ab", and the remove item
\* "a" then found "aa" alone and removed it.
C36_Witness ==
    /\ item.op = "remove" /\ item.old = Some(<<"a">>)
    /\ begun = [on |-> TRUE, fs |-> << <<"a", "b">>, <<"a", "a">> >>]
    /\ prev = << <<"a", "a">> >>
    /\ facts = <<>>
    /\ ~warned

\* C37 -- Once an evaluation has been appended to a diary file, reading the
\* file again gives a non-empty ai_comment whatever the evaluation text was,
\* so no later run evaluates the diary again or appends a second AI section.
C37_EvaluatedOnce ==
    /\ (fpc = "read" /\ appends > 0) => ai_comment # <<>>
    /\ appends <= 1

\* The evaluation of the entry came back None or ''.
FailedEvaluation(i) == outcome[i] \in {"null", "empty"}

\* C38 -- Within one run of process_daily_evaluations the diaries are
\* visited in ascending date order; a diary that already has an AI comment
\* causes no evaluation request and every other diary at most one; a failed
\* evaluation (None or '') leaves the diary's file unmodified and the loop
\* goes on with the next diary.
C38_DailyLoop ==
    /\ [](/\ \A i \in 1..Len(seen) : seen[i] = book[i].date
          /\ \A i \in 1..(Len(seen) - 1) : seen[i] <= seen[i + 1]
          /\ \A i \in 1..Len(book) :
                /\ asks[i] <= 1
                /\ (book[i].commented /\ written[i] = 0) => asks[i] = 0
                /\ outcome[i] = "continue" => asks[i] = 0
                /\ FailedEvaluation(i) => (written[i] = 0 /\ ~book[i].commented))
    /\ [][(vpc = "asked" /\ outcome'[cur] \in {"null", "empty"}) =>
              /\ vpc' = "loop" /\ cur' = cur + 1
              /\ book' = book /\ written' = written]_vars

\* C38 witness: the evaluation of the first diary failed, its file is as it
\* was, and the second, later diary is being evaluated.
C38_Witness ==
    /\ vpc = "asked" /\ cur = 2
    /\ FailedEvaluation(1) /\ written[1] = 0 /\ asks[1] = 1
    /\ book[1].date < book[2].date
    /\ asks[2] = 1

\* C39 -- In a run all missing weekly summaries are generated before any
\* daily evaluation starts; if generate_weekly_summary returns None or ''
\* for a week (the operator's skip included) the run ends with no daily
\* evaluation requested and no summary file written for that week, and the
\* summaries saved earlier in the run stay as they were written.
C39_SummariesFirst ==
    /\ [](/\ evals > 0 =>
                (wk > need /\ \A i \in 1..need : sumOut[i] = "text")
          /\ wpc = "halted" =>
                /\ evals = 0
                /\ sumOut[wk] \in FalsySummaries /\ sumFile[wk] = "none"
                /\ \A i \in 1..(wk - 1) : sumOut[i] = "text")
    /\ [][/\ wpc # "halted"
          /\ \A i \in 1..need : sumFile[i] # "none" => sumFile'[i] = sumFile[i]
          /\ \A i \in 1..need : sumOut[i] \in FalsySummaries => evals' = 0]_vars

\* C39 witness: the first week's summary is on disk, the operator skipped
\* the second, and the run has ended before the daily loop.
C39_Witness ==
    /\ wpc = "halted" /\ wk = 2 /\ need = 3
    /\ sumFile[1] = "written" /\ sumOut[2] = "skip"
    /\ sumFile[2] = "none" /\ evals = 0

\* send_request, and check_and_optimize, has been entered and not yet left.
InSend == npc \in {"attempt", "prompt"}
InOptimize == bpc \in {"compress", "menu", "after_loop", "prune", "final", "edit"}

\* Attempts fail for ever and the operator chooses to retry for ever.
RetriesForever == []<><<TryFails>>_loopsVars /\ []<><<AnswerRetry>>_loopsVars
\* Compaction attempts fail for ever and the operator chooses "1" for ever.
ContinuesForever == []<><<CompressRejected>>_loopsVars /\ []<><<MenuOne>>_loopsVars

====
